---- MODULE Spec2Model ----
(***************************************************************************)
(* Timetabling model compiler: the decision-variable space x[s,t,c,r], the *)
(* seven hard constraint families of hard_constrains.py, the soft course   *)
(* coverage of lp_minimal_3.py, the soft terms of soft_constrains.py, the  *)
(* objective composer and the infeasibility diagnoser of lp_minimal_2.py,  *)
(* and the solve.                                                          *)
(* A linear constraint over 0/1 variables is a record: the variables that  *)
(* appear with coefficient 1, the sense and the right-hand side.  An       *)
(* assignment is the set of quadruples whose variable is 1.                *)
(***************************************************************************)
EXTENDS Integers, Sequences, FiniteSets, Bags, TLC

\* ------------------------------------------------------------- bounds
NumSlots == 2
NumTeachers == 2
NumCourses == 2
NumRooms == 2
\* the solving collaborator returns assignments with at most MaxActive ones
MaxActive == 2
\* calls of a family function beyond its first, over all families
MaxRepeat == 1
\* terms enabled together, other than in the setting main ships
MaxEnabled == 2
\* constraints of a model whose conflict sets are searched exhaustively
MaxSearch == 10

\* ------------------------------------------------- program constants
WeightTeacherSoftTime == 100
WeightRoomWaste == 70
WeightFacultyMismatch == 50
DROP_PENALTY == 1000000

\* ------------------------------------------------------ entity model
RoomType == {"LECTURE", "LAB", "COMPUTER", "SEMINAR"}
CourseType == {"PFLICHT", "WAHLPHLICHT", "WAHL", "UNABSICHTIGT"}
Faculty == {"BU", "AU", "KG", "M"}
Building == {"GSS", "M13", "C11", "C13", "M7", "B11", "HK7"}

\* a slot id that is not a key of x = addVars(range(1, NumSlots + 1), ...)
\* (slot 31 with --slots 5)
OutOfRangeSlot == NumSlots + 1
teachers_id_list == 1 .. NumTeachers
rooms_id_list == 1 .. NumRooms

Range(f) == {f[i] : i \in DOMAIN f}

Teacher(hard, soft) ==
    [hard_time_constr |-> hard, soft_time_constr |-> soft]

Course(exp, sem, fac, facility) ==
    [expected_num_students |-> exp, semester |-> sem, faculty |-> fac,
     facility_constr |-> facility]

Room(ty, fac, cap, addr) ==
    [type |-> ty, faculty |-> fac, capacity |-> cap, address |-> addr]

\* the records a deviating entity is drawn from
TeacherProfiles ==
    { Teacher(<<1>>, <<>>),
      Teacher(<<>>, <<1>>),
      Teacher(<<OutOfRangeSlot>>, <<>>),
      Teacher(<<2, OutOfRangeSlot, 1>>, <<2>>) }

CourseProfiles ==
    { Course(20, << <<"Study 1", 2, "PFLICHT">> >>, "BU", <<"LECTURE">>),
      Course(20, << <<"Study 1", 2, "WAHL">> >>, "AU", <<"SEMINAR">>),
      Course(30, << <<"Study 1", 2, "PFLICHT">>, <<"Study 2", 1, "WAHL">> >>,
             "BU", <<"LAB", "COMPUTER">>),
      Course(30, <<>>, "BU", <<"LECTURE">>),
      Course(20, <<>>, "KG", <<"SEMINAR", "LAB">>),
      Course(20, << <<"Study 2", 2, "WAHL">> >>, "BU", <<>>) }

RoomProfiles ==
    { Room("LECTURE", "AU", 30, "GSS"),
      Room("LECTURE", "BU", 10, "GSS"),
      Room("COMPUTER", "BU", 20, "GSS"),
      Room("SEMINAR", "BU", 30, "GSS"),
      Room("LECTURE", "BU", 20000, "GSS") }

\* the entities every scenario starts from
BaseTeacher(t) == Teacher(<<>>, <<>>)

BaseCourse(c) ==
    Course(20, << <<"Study 1", c, "PFLICHT">> >>, "BU",
           IF c % 2 = 1 THEN <<"LECTURE">> ELSE <<"SEMINAR">>)

BaseRoom(r) ==
    IF r % 2 = 1 THEN Room("LECTURE", "BU", 20, IF r = 1 THEN "GSS" ELSE "M13")
    ELSE Room("LAB", "BU", 30, "M13")

BaseTeachers == [t \in teachers_id_list |-> BaseTeacher(t)]
BaseCourses == [c \in 1 .. NumCourses |-> BaseCourse(c)]
BaseRooms == [r \in rooms_id_list |-> BaseRoom(r)]

\* teacher sets: the first teacher deviates from the base
TeacherSets ==
    { [t \in teachers_id_list |-> IF t = 1 THEN p ELSE BaseTeacher(t)]
      : p \in TeacherProfiles }

\* course sets: 1 .. NumCourses courses, the first may deviate from the base
CourseSets ==
    { [c \in 1 .. n |-> IF c = 1 THEN p ELSE BaseCourse(c)]
      : n \in 1 .. NumCourses, p \in CourseProfiles \cup {BaseCourse(1)} }

\* room sets: the first room deviates from the base
RoomSets ==
    { [r \in rooms_id_list |-> IF r = 1 THEN p ELSE BaseRoom(r)]
      : p \in RoomProfiles }

\* an entry of courses.json: the fields of the course and its teacher_ids
CourseJson(course, teacher_ids) == course @@ [teacher_ids |-> teacher_ids]

\* the parameters of Course.__init__ (inspect.signature), as far as modelled
Accepted == {"expected_num_students", "semester", "faculty", "facility_constr"}

\* kwargs = {k: v for k, v in kwargs.items() if k in accepted}; cls(**kwargs)
construct_flex(payload) ==
    [k \in DOMAIN payload \cap Accepted |-> payload[k]]

load_courses(json) == [c \in DOMAIN json |-> construct_flex(json[c])]

\* teacher_ids lists of an entry: none, a known id, an unknown id, both
TeacherIdLists == {<<>>, <<1>>, <<NumTeachers + 1>>, <<1, NumTeachers + 1>>}

\* courses.json of a course set: the first entry carries the teacher_ids
CoursesJson(cs, teacher_ids) ==
    [c \in DOMAIN cs |-> CourseJson(cs[c], IF c = 1 THEN teacher_ids ELSE <<>>)]

\* the entity sets the flows are run on
Scenarios ==
    {[t |-> ts, c |-> BaseCourses, r |-> BaseRooms] : ts \in TeacherSets}
    \cup {[t |-> BaseTeachers, c |-> cs, r |-> BaseRooms] : cs \in CourseSets}
    \cup {[t |-> BaseTeachers, c |-> BaseCourses, r |-> rs] : rs \in RoomSets}

VARIABLES
    slots,              \* the slot ids, the first index of x
    teacher_by_id,      \* teacher id -> Teacher
    course_by_id,       \* course id -> Course
    courses_json,       \* course id -> the course's entry of courses.json
    room_by_id,         \* room id -> Room
    allow_dropping,     \* ALLOW_DROPPING_COURSES: soft course coverage
    pc,                 \* position of the build-and-solve flow
    constrs,            \* the model's constraints, a bag (addConstr appends)
    applied,            \* family -> number of calls made so far
    status,             \* UNSOLVED, OPTIMAL, SUBOPTIMAL, INFEASIBLE, KeyError
    x,                  \* returned assignment: the quadruples with value 1
    unscheduled,        \* returned drop indicators: the courses with u = 1
    soft,               \* outcome of the soft-term function applied last
    ENABLE_SOFTS,       \* term name -> enabled
    soft_exprs,         \* the keys of the dict of term expressions
    ObjVal,             \* m.ObjVal after a solve that returned an assignment
    breakdown,          \* SUM(components) of print_objective_breakdown
    report,             \* the conflict set and what the diagnoser returned
    output              \* what the flow printed about the solve

composer == <<ENABLE_SOFTS, soft_exprs, ObjVal, breakdown, report, output>>

vars == <<slots, teacher_by_id, course_by_id, room_by_id, courses_json, allow_dropping, pc,
          constrs, applied, status, x, unscheduled, soft, composer>>

entities ==
    <<slots, teacher_by_id, course_by_id, room_by_id, courses_json, allow_dropping, soft,
      composer>>

\* the keys of ENABLE_SOFTS, in the order main visits them
SoftNames ==
    <<"TEACHER_SOFT_TIME", "ROOM_WASTE", "FACULTY_MISMATCH", "T_MAX_CONSEC",
      "T_MIN_TEACH_DAYS", "SEM_MAX_PER_DAY", "SEM_AVOID_EARLY",
      "SEM_SINGLE_DAY", "T_MIN_FREE_DAYS", "COURSE_STABILITY",
      "T_B2B_BUILDING_CHANGE", "LECT_BEFORE_TUT">>

\* ENABLE_SOFTS as main sets it
ShippedEnable ==
    [n \in Range(SoftNames) |-> n \notin {"COURSE_STABILITY", "LECT_BEFORE_TUT"}]

NoBreakdown == [printed |-> FALSE]
NoReport == [made |-> FALSE]
NoOutput == [made |-> FALSE]

\* nothing composed, solved or diagnosed yet
ComposerIdle ==
    /\ soft_exprs = {}
    /\ ObjVal = 0
    /\ breakdown = NoBreakdown
    /\ report = NoReport
    /\ output = NoOutput

courses_id_list == DOMAIN course_by_id

\* x = m.addVars(slots, teachers, courses, rooms): the keys of x
Keys == slots \X teachers_id_list \X courses_id_list \X rooms_id_list

\* semesters = {sem for c in courses_objects for sem in c.semester}
semesters == UNION {Range(course_by_id[c].semester) : c \in courses_id_list}

\* ------------------------------------------------------- constraints
\* m.addConstr(quicksum(vars) + quicksum(uvars) <sense> rhs, name = fam + ids)
Constr(fam, ids, vs, us, sense, rhs) ==
    [fam |-> fam, ids |-> ids, vars |-> vs, uvars |-> us,
     sense |-> sense, rhs |-> rhs]

RECURSIVE BagOfSeq(_)
\* the constraints one family call appends, with their multiplicity
BagOfSeq(seq) ==
    IF seq = <<>> THEN EmptyBag
    ELSE SetToBag({Head(seq)}) (+) BagOfSeq(Tail(seq))

\* value of a constraint's left-hand side under an assignment
Lhs(k, xs, us) == Cardinality(k.vars \cap xs) + Cardinality(k.uvars \cap us)

Holds(k, xs, us) ==
    CASE k.sense = "<=" -> Lhs(k, xs, us) <= k.rhs
      [] k.sense = "==" -> Lhs(k, xs, us) = k.rhs
      [] k.sense = ">=" -> Lhs(k, xs, us) >= k.rhs

\* the assignment satisfies every constraint of the set
Satisfies(xs, us, cs) == \A k \in cs : Holds(k, xs, us)

\* variables no "== 0" constraint fixes
Free(cs) ==
    Keys \ UNION {k.vars : k \in {j \in cs : j.sense = "==" /\ j.rhs = 0}}

\* ------------------------------------------ hard constraint families
\* mutant: the course loop moved outside the sum, one constraint per course
add_single_room_single_course_constr_per_course ==
    SetToBag({ Constr("room", <<k[1], k[2]>>,
                      {q \in Keys : q[4] = k[1] /\ q[1] = k[2] /\ q[3] = k[3]},
                      {}, "<=", 1)
               : k \in rooms_id_list \X slots \X courses_id_list })

\* <= 1 assignment per (room, slot)
add_single_room_single_course_constr ==
    SetToBag({ Constr("room", <<r, s>>,
                      {q \in Keys : q[4] = r /\ q[1] = s}, {}, "<=", 1)
               : r \in rooms_id_list, s \in slots })

\* <= 1 assignment per (teacher, slot)
add_single_teacher_single_course_constr ==
    SetToBag({ Constr("teacher", <<t, s>>,
                      {q \in Keys : q[2] = t /\ q[1] = s}, {}, "<=", 1)
               : t \in teachers_id_list, s \in slots })

\* courses_in_sem = [c_id for c_id in courses if sem in course.semester]
courses_in_sem(sem) ==
    {c \in courses_id_list : sem \in Range(course_by_id[c].semester)}

\* mutant: <= 2 instead of <= 1
add_no_semester_overlapping_constr_le2 ==
    SetToBag({ Constr("semester", <<s, sem>>,
                      {q \in Keys : q[3] \in courses_in_sem(sem) /\ q[1] = s},
                      {}, "<=", 2)
               : sem \in semesters, s \in slots })

\* <= 1 assignment per (semester, slot) over the semester's courses
add_no_semester_overlapping_constr ==
    SetToBag({ Constr("semester", <<s, sem>>,
                      {q \in Keys : q[3] \in courses_in_sem(sem) /\ q[1] = s},
                      {}, "<=", 1)
               : sem \in semesters, s \in slots })

RECURSIVE HardTimeVisits(_)
\* the (teacher, slot) pairs in the order the two loops visit them
HardTimeVisits(t) ==
    IF t > NumTeachers THEN <<>>
    ELSE LET h == teacher_by_id[t].hard_time_constr
         IN  [i \in 1 .. Len(h) |-> <<t, h[i]>>] \o HardTimeVisits(t + 1)

\* x[slot, t, c, r] raises KeyError when the slot is not a key of x
RaisesKeyError(visit) == visit[2] \notin slots /\ Keys # {}

\* the visits carried out before the first KeyError
CompletedVisits(visits) ==
    LET bad == {i \in 1 .. Len(visits) : RaisesKeyError(visits[i])}
    IN  IF bad = {} THEN visits
        ELSE SubSeq(visits, 1, (CHOOSE i \in bad : \A j \in bad : i <= j) - 1)

\* mutant: the "<= 1" of the exclusivity families instead of "== 0"
HardTimeConstr_le1(visit) ==
    Constr("teacher_hard_time", visit,
           {q \in Keys : q[2] = visit[1] /\ q[1] = visit[2]}, {}, "<=", 1)

HardTimeConstr(visit) ==
    Constr("teacher_hard_time", visit,
           {q \in Keys : q[2] = visit[1] /\ q[1] = visit[2]}, {}, "==", 0)

\* == 0 per (teacher, slot in hard_time_constr)
add_teacher_hard_time_constraints ==
    LET done == CompletedVisits(HardTimeVisits(1))
    IN  BagOfSeq([i \in 1 .. Len(done) |-> HardTimeConstr(done[i])])

\* the call does not return: some slot of a hard_time_constr is no key of x
HardTimeKeyError ==
    \E i \in 1 .. Len(HardTimeVisits(1)) : RaisesKeyError(HardTimeVisits(1)[i])

\* set(getattr(course_by_id[c], "teacher_ids", []) or [])
raw_allowed(c) ==
    IF "teacher_ids" \in DOMAIN course_by_id[c]
    THEN Range(course_by_id[c].teacher_ids) ELSE {}

\* per course with a teacher_ids that names a known teacher, and per teacher
\* outside it: quicksum(x[s, t, c, r] for s, r) == 0
add_course_teacher_compatibility_constraint ==
    LET allowed(c) == raw_allowed(c) \cap teachers_id_list
        inst == {ct \in courses_id_list \X teachers_id_list :
                    /\ raw_allowed(ct[1]) # {}
                    /\ allowed(ct[1]) # {}
                    /\ ct[2] \notin allowed(ct[1])}
    IN  SetToBag({Constr("teacher_not_allowed", ct,
                         {q \in Keys : q[3] = ct[1] /\ q[2] = ct[2]}, {},
                         "==", 0) : ct \in inst})

\* mutant: >= instead of >
CapacityExceeded_ge(c, r) ==
    course_by_id[c].expected_num_students >= room_by_id[r].capacity

\* if course.expected_num_students > room.capacity
CapacityExceeded(c, r) ==
    course_by_id[c].expected_num_students > room_by_id[r].capacity

\* mutant: a variable some constraint of m already fixes is skipped
add_room_capacity_constr_skip_fixed ==
    SetToBag({ Constr("capacity", q, {q}, {}, "==", 0)
               : q \in {k \in Keys : CapacityExceeded(k[3], k[4])}
                       \cap Free(BagToSet(constrs)) })

\* x[s,t,c,r] == 0 for every (c, r) whose room is too small
add_room_capacity_constr ==
    SetToBag({ Constr("capacity", q, {q}, {}, "==", 0)
               : q \in {k \in Keys : CapacityExceeded(k[3], k[4])} })

SEMINAR_COMPATIBLE == {"SEMINAR", "LECTURE", "LAB", "COMPUTER"}

\* mutant: no closure step
allowed_types_no_closure(c) == Range(course_by_id[c].facility_constr)

\* allowed_types after the closure step
allowed_types(c) ==
    LET allowed == Range(course_by_id[c].facility_constr)
    IN  IF "SEMINAR" \in allowed THEN allowed \cup SEMINAR_COMPATIBLE
        ELSE allowed

\* x[s,t,c,r] == 0 for every room whose type is not allowed
add_room_type_constraints ==
    SetToBag({ Constr("room_type", <<q, allowed_types(q[3])>>, {q}, {}, "==", 0)
               : q \in {k \in Keys :
                          room_by_id[k[4]].type \notin allowed_types(k[3])} })

\* mutant: one constraint over all courses instead of one per course
add_all_courses_scheduled_constraint_any_course ==
    SetToBag({ Constr("coverage", <<c>>, Keys, {}, ">=", 1)
               : c \in courses_id_list })

\* >= 1 assignment per course
add_all_courses_scheduled_constraint ==
    SetToBag({ Constr("coverage", <<c>>, {q \in Keys : q[3] = c}, {}, ">=", 1)
               : c \in courses_id_list })

\* mutant: the drop indicator is left out of the sum
add_all_courses_scheduled_soft_no_indicator ==
    SetToBag({ Constr("scheduled_or_dropped", <<c>>,
                      {q \in Keys : q[3] = c}, {}, "==", 1)
               : c \in courses_id_list })

\* mutant: >= 1 instead of == 1
add_all_courses_scheduled_soft_ge ==
    SetToBag({ Constr("scheduled_or_dropped", <<c>>,
                      {q \in Keys : q[3] = c}, {c}, ">=", 1)
               : c \in courses_id_list })

\* sum x[.,.,c,.] + u[c] == 1 per course
add_all_courses_scheduled_soft ==
    SetToBag({ Constr("scheduled_or_dropped", <<c>>,
                      {q \in Keys : q[3] = c}, {c}, "==", 1)
               : c \in courses_id_list })

\* ---------------------------------------------------- soft objective
RECURSIVE SetSum(_, _)
\* sum of coef[e] over the elements of a finite set
SetSum(S, coef) ==
    IF S = {} THEN 0
    ELSE LET e == CHOOSE v \in S : TRUE
         IN  coef[e] + SetSum(S \ {e}, coef)

\* how often the list names the value
Occurrences(seq, v) == Cardinality({i \in DOMAIN seq : seq[i] = v})

\* weight * sum over t, slot in t.soft_time_constr, c, r of x[slot,t,c,r]
add_teacher_soft_time_objective(xs) ==
    LET coef == [q \in xs |->
                    Occurrences(teacher_by_id[q[2]].soft_time_constr, q[1])]
    IN  WeightTeacherSoftTime * SetSum(xs, coef)

\* weight * sum of (cap - exp) * x[s,t,c,r] over the pairs with cap >= exp
add_room_waste_objective(xs) ==
    LET coef == [q \in xs |->
                    LET exp == course_by_id[q[3]].expected_num_students
                        cap == room_by_id[q[4]].capacity
                    IN  IF cap >= exp THEN cap - exp ELSE 0]
    IN  WeightRoomWaste * SetSum(xs, coef)

\* weight * sum of x[s,t,c,r] over the pairs with room faculty # course faculty
add_faculty_mismatch_objective(xs) ==
    LET coef == [q \in xs |->
                    IF room_by_id[q[4]].faculty # course_by_id[q[3]].faculty
                    THEN 1 ELSE 0]
    IN  WeightFacultyMismatch * SetSum(xs, coef)

\* drop_expr = penalty * sum of u[c]
DropExpr(us) == DROP_PENALTY * Cardinality(us)

\* obj = quicksum(soft_exprs.values()) (+ drop_expr under soft coverage)
Objective(xs, us) ==
    add_teacher_soft_time_objective(xs) + add_room_waste_objective(xs)
    + add_faculty_mismatch_objective(xs)
    + (IF allow_dropping THEN DropExpr(us) ELSE 0)

\* ------------------------------------------------ solving collaborator
\* the order in which the enumeration sets variables to 1
Before(p, q) ==
    \/ p[1] < q[1]
    \/ p[1] = q[1] /\ p[2] < q[2]
    \/ p[1] = q[1] /\ p[2] = q[2] /\ p[3] < q[3]
    \/ p[1] = q[1] /\ p[2] = q[2] /\ p[3] = q[3] /\ p[4] < q[4]

\* setting q to 1 on top of X exceeds no "<=" or "==" right-hand side; all
\* coefficients are 1, so an assignment that exceeds one cannot be extended
\* to a satisfying one
WithinUpper(X, q, upper) ==
    \A k \in upper : q \in k.vars => Cardinality(k.vars \cap X) + 1 <= k.rhs

\* the assignments one variable larger than those of the frontier
Extend(frontier, free, upper) ==
    { pr[1] \cup {pr[2]} :
        pr \in { z \in frontier \X free :
                    /\ \A p \in z[1] : Before(p, z[2])
                    /\ WithinUpper(z[1], z[2], upper) } }

RECURSIVE Grow(_, _, _, _, _)
\* the assignments with at most n more ones than those of the frontier
Grow(acc, frontier, n, free, upper) ==
    IF n = 0 \/ frontier = {} THEN acc
    ELSE LET next == Extend(frontier, free, upper)
         IN  Grow(acc \cup next, next, n - 1, free, upper)

\* the assignments (x, u) with at most MaxActive ones in x that satisfy every
\* constraint; u exists only under soft coverage.  The candidates are grown
\* within the "== 0" and "<=" constraints, which leaves the others to test.
Feasible(cs) ==
    LET rest == {k \in cs : ~(k.sense = "==" /\ k.rhs = 0)}
        upper == {k \in rest : k.sense # ">="}
        lower == {k \in rest : k.sense # "<="}
        drops == IF allow_dropping THEN SUBSET courses_id_list ELSE {{}}
        cand == Grow({{}}, {{}}, MaxActive, Free(cs), upper)
    IN  {sol \in [x : cand, u : drops] : Satisfies(sol.x, sol.u, lower)}

\* the least objective value over the satisfying assignments
MinObjective(feas) ==
    LET vals == {Objective(sol.x, sol.u) : sol \in feas}
    IN  CHOOSE v \in vals : \A w \in vals : v <= w

\* ------------------------------------------------- build-and-solve flow
Families ==
    {"room", "teacher", "semester", "teacher_hard_time", "capacity",
     "room_type", "coverage"}

NoSoftTerm == [term |-> "none"]

InitFlow(start, lists) ==
    /\ slots = 1 .. NumSlots
    /\ soft = NoSoftTerm
    /\ ENABLE_SOFTS = ShippedEnable
    /\ ComposerIdle
    /\ \E sc \in Scenarios, teacher_ids \in lists :
          /\ teacher_by_id = sc.t
          /\ courses_json = CoursesJson(sc.c, teacher_ids)
          /\ course_by_id = load_courses(courses_json)
          /\ room_by_id = sc.r
    /\ allow_dropping \in BOOLEAN
    /\ pc = start
    /\ constrs = EmptyBag
    /\ applied = [f \in Families |-> 0]
    /\ status = "UNSOLVED"
    /\ x = {}
    /\ unscheduled = {}

Init == InitFlow("room", TeacherIdLists)

\* one call of a family function that returns: its constraints are appended
Call(f, added, next) ==
    /\ pc = f
    /\ constrs' = constrs (+) added
    /\ applied' = [applied EXCEPT ![f] = @ + 1]
    /\ pc' = next
    /\ UNCHANGED <<entities, status, x, unscheduled>>

AddSingleRoomSingleCourse ==
    Call("room", add_single_room_single_course_constr, "teacher")

AddSingleTeacherSingleCourse ==
    Call("teacher", add_single_teacher_single_course_constr, "semester")

AddNoSemesterOverlapping ==
    Call("semester", add_no_semester_overlapping_constr, "teacher_hard_time")

AddTeacherHardTime ==
    /\ ~HardTimeKeyError
    /\ Call("teacher_hard_time", add_teacher_hard_time_constraints, "capacity")

\* the KeyError leaves the constraints added so far in m and ends the flow
AddTeacherHardTimeRaises ==
    /\ pc = "teacher_hard_time"
    /\ HardTimeKeyError
    /\ constrs' = constrs (+) add_teacher_hard_time_constraints
    /\ status' = "KeyError"
    /\ pc' = "raised"
    /\ UNCHANGED <<entities, applied, x, unscheduled>>

AddRoomCapacity ==
    Call("capacity", add_room_capacity_constr, "room_type")

AddRoomType ==
    Call("room_type", add_room_type_constraints, "teacher_compat")

\* lp_minimal_3 calls add_course_teacher_compatibility_constraint before the
\* coverage family
AddCourseTeacherCompatibility ==
    /\ pc = "teacher_compat"
    /\ constrs' = constrs (+) add_course_teacher_compatibility_constraint
    /\ pc' = "coverage"
    /\ UNCHANGED <<entities, applied, status, x, unscheduled>>

\* the other mains, which compile hard coverage, make no such call
NoCourseTeacherCompatibility ==
    /\ pc = "teacher_compat"
    /\ ~allow_dropping
    /\ pc' = "coverage"
    /\ UNCHANGED <<entities, constrs, applied, status, x, unscheduled>>

AddAllCoursesScheduled ==
    /\ ~allow_dropping
    /\ Call("coverage", add_all_courses_scheduled_constraint, "optimize")

AddAllCoursesScheduledSoft ==
    /\ allow_dropping
    /\ Call("coverage", add_all_courses_scheduled_soft, "optimize")

\* m.optimize(): INFEASIBLE, or an assignment with status OPTIMAL (its
\* objective value is the least one) or SUBOPTIMAL
Optimize ==
    /\ pc = "optimize"
    /\ \E feas \in {Feasible(BagToSet(constrs))} :
          IF feas = {}
          THEN /\ status' = "INFEASIBLE"
               /\ UNCHANGED <<x, unscheduled>>
          ELSE \E best \in {MinObjective(feas)} :
                  \E sol \in feas :
                     /\ x' = sol.x
                     /\ unscheduled' = sol.u
                     /\ status' = IF Objective(sol.x, sol.u) = best
                                  THEN "OPTIMAL" ELSE "SUBOPTIMAL"
    /\ pc' = "report"
    /\ UNCHANGED <<entities, constrs, applied>>

\* the result branch of the main of lp_minimal_3 (and of lp_minimal_2): what
\* is printed for the solver status
main_report(st) ==
    IF st \in {"OPTIMAL", "SUBOPTIMAL"}
    THEN [made |-> TRUE, flow |-> "main", label |-> "Solution found",
          shown |-> TRUE]
    ELSE [made |-> TRUE, flow |-> "main", label |-> "NO SOLUTION. Status",
          shown |-> FALSE]

\* optimizer_cli.report_schedule_solution: what is printed for the status
report_schedule_solution(st) ==
    IF st = "INFEASIBLE"
    THEN [made |-> TRUE, flow |-> "cli",
          label |-> "Model infeasible, computing IIS", shown |-> FALSE]
    ELSE IF st # "OPTIMAL"
    THEN [made |-> TRUE, flow |-> "cli",
          label |-> "NO OPTIMAL SOLUTION. Status", shown |-> FALSE]
    ELSE [made |-> TRUE, flow |-> "cli", label |-> "Optimal solution found",
          shown |-> TRUE]

\* the step after m.optimize(): the model is left as it is
ReportStep(out) ==
    /\ pc = "report"
    /\ output' = out
    /\ pc' = "done"
    /\ UNCHANGED <<slots, teacher_by_id, course_by_id, room_by_id, courses_json,
                   allow_dropping, soft, constrs, applied, status, x,
                   unscheduled, ENABLE_SOFTS, soft_exprs, ObjVal, breakdown,
                   report>>

ReportMain == ReportStep(main_report(status))

\* mutant: on INFEASIBLE the coverage constraints are removed and the model
\* is solved again
ReportScheduleSolution_relax ==
    /\ ~allow_dropping
    /\ pc = "report"
    /\ IF status = "INFEASIBLE"
       THEN /\ constrs' = SetToBag({k \in BagToSet(constrs) :
                                       k.fam # "coverage"})
            /\ pc' = "optimize"
            /\ output' = output
       ELSE /\ constrs' = constrs
            /\ pc' = "done"
            /\ output' = report_schedule_solution(status)
    /\ UNCHANGED <<slots, teacher_by_id, course_by_id, room_by_id, courses_json,
                   allow_dropping, soft, applied, status, x, unscheduled,
                   ENABLE_SOFTS, soft_exprs, ObjVal, breakdown, report>>

\* the schedule command of optimizer_cli compiles hard coverage only
ReportScheduleSolution ==
    /\ ~allow_dropping
    /\ ReportStep(report_schedule_solution(status))

\* the constraints a call of the family function appends
FamilyConstrs(f) ==
    CASE f = "room" -> add_single_room_single_course_constr
      [] f = "teacher" -> add_single_teacher_single_course_constr
      [] f = "semester" -> add_no_semester_overlapping_constr
      [] f = "teacher_hard_time" -> add_teacher_hard_time_constraints
      [] f = "capacity" -> add_room_capacity_constr
      [] f = "room_type" -> add_room_type_constraints
      [] f = "coverage" -> add_all_courses_scheduled_constraint

\* calls made beyond the first call of each family
Repeats ==
    SetSum(Families,
           [f \in Families |-> IF applied[f] > 1 THEN applied[f] - 1 ELSE 0])

\* the seven functions applied to one model in any order, some repeatedly
ApplyFamily(f) ==
    /\ pc = "any_order"
    /\ applied[f] = 0 \/ Repeats < MaxRepeat
    /\ ~(f = "teacher_hard_time" /\ HardTimeKeyError)
    /\ constrs' = constrs (+) FamilyConstrs(f)
    /\ applied' = [applied EXCEPT ![f] = @ + 1]
    /\ UNCHANGED <<entities, pc, status, x, unscheduled>>

ApplyTeacherHardTimeRaises ==
    /\ pc = "any_order"
    /\ HardTimeKeyError
    /\ constrs' = constrs (+) add_teacher_hard_time_constraints
    /\ status' = "KeyError"
    /\ pc' = "raised"
    /\ UNCHANGED <<entities, applied, x, unscheduled>>

Next ==
    \/ AddSingleRoomSingleCourse
    \/ AddSingleTeacherSingleCourse
    \/ AddNoSemesterOverlapping
    \/ AddTeacherHardTime
    \/ AddTeacherHardTimeRaises
    \/ AddRoomCapacity
    \/ AddRoomType
    \/ AddCourseTeacherCompatibility
    \/ NoCourseTeacherCompatibility
    \/ AddAllCoursesScheduled
    \/ AddAllCoursesScheduledSoft
    \/ Optimize
    \/ ReportMain
    \/ ReportScheduleSolution

Spec == Init /\ [][Next]_vars

InitCompile == InitFlow("any_order", {<<>>}) /\ ~allow_dropping

NextCompile ==
    \/ \E f \in Families : ApplyFamily(f)
    \/ ApplyTeacherHardTimeRaises

SpecCompile == InitCompile /\ [][NextCompile]_vars

\* ------------------------------ soft terms with auxiliary variables
\* The functions of soft_constrains.py that add auxiliary variables and
\* linking constraints.  Each is evaluated on one assignment xs of x: what is
\* defined is the set of values the auxiliary variables can take in a
\* satisfying assignment that extends xs.

\* value of the variable x[q]
XVal(xs, q) == IF q \in xs THEN 1 ELSE 0

\* a BINARY variable constrained to equal n: the values it can take
BinaryEq(n) == {v \in {0, 1} : v = n}

RECURSIVE Choices(_, _)
\* the functions that give every element i of I one of the values vals[i]
Choices(I, vals) ==
    IF I = {} THEN {<<>>}
    ELSE LET i == CHOOSE j \in I : TRUE
         IN  {(i :> v) @@ f : v \in vals[i], f \in Choices(I \ {i}, vals)}

\* teach_any[t, s] == quicksum(x[s, t, c, r] for c in courses for r in rooms)
build_teacher_teach_any(xs) ==
    LET cnt == [ts \in teachers_id_list \X slots |->
                   Cardinality({q \in xs : q[2] = ts[1] /\ q[1] = ts[2]})]
    IN  Choices(DOMAIN cnt, [ts \in DOMAIN cnt |-> BinaryEq(cnt[ts])])

\* occ[c, s] == quicksum(x[s, t, c, r] for t in teachers for r in rooms)
build_course_occ(xs, course_ids) ==
    LET cnt == [cs \in course_ids \X slots |->
                   Cardinality({q \in xs : q[3] = cs[1] /\ q[1] = cs[2]})]
    IN  Choices(DOMAIN cnt, [cs \in DOMAIN cnt |-> BinaryEq(cnt[cs])])

\* mutant: the constraint z >= a + b - 1 is left out
AndLinearization_no_lower(a, b) == {z \in {0, 1} : z <= a /\ z <= b}

\* z BINARY with z <= a, z <= b, z >= a + b - 1: the values z can take
AndLinearization(a, b) ==
    {z \in {0, 1} : z <= a /\ z <= b /\ z >= a + b - 1}

\* the outcome of a term made of AND-linearized variables, one per instance:
\* the linked values a and b, the values z of a satisfying assignment and the
\* value of the returned expression weight * sum(z)
AndTerm(term, inst, a, b, weight) ==
    { [term |-> term, outcome |-> "linked", a |-> a, b |-> b, z |-> z,
       weight |-> weight, value |-> weight * SetSum(inst, z)]
      : z \in Choices(inst, [i \in inst |-> AndLinearization(a[i], b[i])]) }

\* the linking constraints of the term have no solution on top of xs
Unlinkable(term) == [term |-> term, outcome |-> "unlinkable"]

\* the function raised before it returned an expression
Raised(term, err) == [term |-> term, outcome |-> err]

lunch_pairs == {<<2, 3>>, <<9, 10>>, <<19, 20>>, <<26, 27>>}

\* one z per lunch pair inside the slot range, teacher, course and room of a
\* remote building; a and b are x of the same teacher, course and room
add_remote_building_lunch_objcetive(xs, remote_buildings, weight) ==
    LET inst == {i \in lunch_pairs \X teachers_id_list \X courses_id_list
                        \X rooms_id_list :
                    /\ i[1][1] \in slots
                    /\ i[1][2] \in slots
                    /\ room_by_id[i[4]].address \in remote_buildings}
        a == [i \in inst |-> XVal(xs, <<i[1][1], i[2], i[3], i[4]>>)]
        b == [i \in inst |-> XVal(xs, <<i[1][2], i[2], i[3], i[4]>>)]
    IN  AndTerm("lunch", inst, a, b, weight)

\* buildings = {room_by_id[r].address for r in rooms_id_list}
buildings == {room_by_id[r].address : r \in rooms_id_list}

rooms_by_building(bd) == {r \in rooms_id_list : room_by_id[r].address = bd}

\* y[t, s, b] == quicksum(x[s, t, c, r] for c, r in rooms_by_building[b])
teach_building(xs) ==
    LET cnt == [k \in teachers_id_list \X slots \X buildings |->
                   Cardinality({q \in xs : /\ q[2] = k[1]
                                           /\ q[1] = k[2]
                                           /\ q[4] \in rooms_by_building(k[3])})]
    IN  Choices(DOMAIN cnt, [k \in DOMAIN cnt |-> BinaryEq(cnt[k])])

\* one z per teacher, slot s with s + 1 a slot, and ordered pair of distinct
\* buildings; a = y[t, s, b1], b = y[t, s + 1, b2]
add_teacher_back_to_back_building_change_objective(xs, weight) ==
    LET inst == {i \in teachers_id_list \X slots \X buildings \X buildings :
                    i[2] + 1 \in slots /\ i[3] # i[4]}
    IN  IF teach_building(xs) = {} THEN {Unlinkable("b2b")}
        ELSE UNION { AndTerm("b2b", inst,
                             [i \in inst |-> y[<<i[1], i[2], i[3]>>]],
                             [i \in inst |-> y[<<i[1], i[2] + 1, i[4]>>]],
                             weight)
                     : y \in teach_building(xs) }

\* one z per (lecture, tutorial) pair and slots s_tut < s_lect;
\* a = course_occ[tutorial, s_tut], b = course_occ[lecture, s_lect]
add_lecture_before_tutorial_objective(xs, pairs, weight) ==
    LET course_ids == UNION {{pr[1], pr[2]} : pr \in pairs}
        inst == {i \in pairs \X slots \X slots : i[3] > i[2]}
    IN  IF build_course_occ(xs, course_ids) = {}
        THEN {Unlinkable("lect_tut")}
        ELSE UNION { AndTerm("lect_tut", inst,
                             [i \in inst |-> occ[<<i[1][2], i[2]>>]],
                             [i \in inst |-> occ[<<i[1][1], i[3]>>]],
                             weight)
                     : occ \in build_course_occ(xs, course_ids) }

Max(m, n) == IF m >= n THEN m ELSE n

\* the least element of a non-empty set of integers
Least(S) == CHOOSE v \in S : \A w \in S : v <= w

\* days as the callers build them: consecutive runs of the slot ids
SlotSeq ==
    LET first == Least(slots)
    IN  [i \in 1 .. Cardinality(slots) |-> first + i - 1]

DayPartitions ==
    { <<SlotSeq>>,
      <<SubSeq(SlotSeq, 1, 1), SubSeq(SlotSeq, 2, Len(SlotSeq))>>,
      [i \in 1 .. Len(SlotSeq) |-> <<SlotSeq[i]>>] }

\* y[t, s] == quicksum(x); per day and teacher one BINARY v per window of
\* max_consecutive + 1 slots of the day, v >= sum(y over the window) -
\* max_consecutive; the expression is weight * sum(v)
add_teacher_max_consecutive_objective(xs, days, max_consecutive, weight) ==
    LET window_len == max_consecutive + 1
        wins == {w \in (1 .. Len(days)) \X teachers_id_list \X (0 .. NumSlots) :
                    w[3] <= Len(days[w[1]]) - window_len}
        win(w) == Range(SubSeq(days[w[1]], w[3] + 1, w[3] + window_len))
    IN  IF build_teacher_teach_any(xs) = {} THEN Unlinkable("max_consec")
        ELSE LET y == CHOOSE f \in build_teacher_teach_any(xs) : TRUE
                 vals == [w \in wins |->
                             {v \in {0, 1} :
                                 v >= SetSum(win(w),
                                             [sl \in slots |-> y[<<w[2], sl>>]])
                                      - max_consecutive}]
             IN  [term |-> "max_consec", outcome |-> "linked", days |-> days,
                  limit |-> max_consecutive, weight |-> weight,
                  least |-> weight
                            * SetSum(wins, [w \in wins |-> Least(vals[w])])]

\* study, sem_num = sem raises ValueError unless sem has two components
RaisesValueError(sems) == \E sem \in sems : Len(sem) # 2

\* soft_constrains.build_courses_by_semester: the courses with a tag whose
\* study program and semester number are those of sem
build_courses_by_semester(sems) ==
    [sem \in sems |->
        {c \in courses_id_list :
            \E tag \in Range(course_by_id[c].semester) :
                sem[1] = tag[1] /\ sem[2] = tag[2]}]

\* quicksum of x over the slots of a day and the courses of a set
DayLoad(xs, day, cs) ==
    Cardinality({q \in xs : q[1] \in Range(day) /\ q[3] \in cs})

\* per semester with courses and day one CONTINUOUS slack >= 0 with
\* slack >= classes_count - max_classes_per_day; weight * sum(slack)
add_semester_max_classes_per_day_objective(xs, sems, days, limit, weight) ==
    IF RaisesValueError(sems) THEN Raised("max_per_day", "ValueError")
    ELSE LET courses_by_sem == build_courses_by_semester(sems)
             inst == {i \in sems \X (1 .. Len(days)) :
                         courses_by_sem[i[1]] # {}}
             slack == [i \in inst |->
                          Max(0, DayLoad(xs, days[i[2]], courses_by_sem[i[1]])
                                 - limit)]
         IN  [term |-> "max_per_day", outcome |-> "linked", days |-> days,
              limit |-> limit, weight |-> weight,
              least |-> weight * SetSum(inst, slack)]

\* day_on[t, d] >= teach_any[t, s] for the slots of day d; per teacher one
\* CONTINUOUS excess >= 0 with excess >= sum(day_on) - max_teaching_days
add_teacher_min_free_days_objective(xs, days, min_free_days, weight) ==
    LET num_days == Len(days)
        max_teaching_days == Max(0, num_days - min_free_days)
    IN  IF build_teacher_teach_any(xs) = {} THEN Unlinkable("min_free_days")
        ELSE LET teach_any == CHOOSE f \in build_teacher_teach_any(xs) : TRUE
                 day_on == [td \in teachers_id_list \X (1 .. num_days) |->
                               Least({v \in {0, 1} :
                                        \A sl \in Range(days[td[2]]) :
                                            v >= teach_any[<<td[1], sl>>]})]
                 excess == [t \in teachers_id_list |->
                               Max(0, SetSum(1 .. num_days,
                                             [d \in 1 .. num_days |->
                                                 day_on[<<t, d>>]])
                                      - max_teaching_days)]
             IN  [term |-> "min_free_days", outcome |-> "linked",
                  days |-> days, limit |-> min_free_days, weight |-> weight,
                  least |-> weight * SetSum(teachers_id_list, excess)]

\* room_used[c, r] >= x[s, t, c, r]; building_used[c, b] >= room_used[c, r]
\* for the rooms of b; per course weight_room * (sum(room_used) - 1)
\* + weight_building * (sum(building_used) - 1).  Both weights are positive,
\* so the expression is least where every indicator is.
add_course_room_and_building_stability_objective(xs, w_room, w_building) ==
    LET room_used == [cr \in courses_id_list \X rooms_id_list |->
                         Least({v \in {0, 1} :
                                  \A q \in Keys :
                                      (q[3] = cr[1] /\ q[4] = cr[2])
                                      => v >= XVal(xs, q)})]
        building_used == [cb \in courses_id_list \X buildings |->
                             Least({v \in {0, 1} :
                                      \A r \in rooms_by_building(cb[2]) :
                                          v >= room_used[<<cb[1], r>>]})]
        rooms_count(c) ==
            SetSum(rooms_id_list,
                   [r \in rooms_id_list |-> room_used[<<c, r>>]])
        buildings_count(c) ==
            SetSum(buildings, [bd \in buildings |-> building_used[<<c, bd>>]])
        per_course == [c \in courses_id_list |->
                          w_room * (rooms_count(c) - 1)
                          + w_building * (buildings_count(c) - 1)]
    IN  [term |-> "stability", outcome |-> "linked",
         weight_room |-> w_room, weight_building |-> w_building,
         per_course |-> per_course,
         least |-> SetSum(courses_id_list, per_course)]

\* the same term without the lower link of has_two
add_semester_single_class_day_objective_no_lb(xs, sems, days, weight) ==
    IF RaisesValueError(sems) THEN Raised("single_day", "ValueError")
    ELSE LET sem_courses == build_courses_by_semester(sems)
             inst == {i \in sems \X (1 .. Len(days)) : sem_courses[i[1]] # {}}
             vals(i) ==
                 LET day_load == DayLoad(xs, days[i[2]], sem_courses[i[1]])
                     M == Len(days[i[2]])
                 IN  {w \in {0, 1} \X {0, 1} \X {0, 1} :
                        /\ day_load <= M * w[1]
                        /\ day_load >= w[1]
                        /\ day_load <= 1 + M * w[2]
                        /\ w[3] = w[1] - w[2]}
             singles(i) == {w[3] : w \in vals(i)}
         IN  IF \E i \in inst : singles(i) = {} THEN Unlinkable("single_day")
             ELSE [term |-> "single_day", outcome |-> "linked", days |-> days,
                   weight |-> weight,
                   vals |-> [i \in inst |-> vals(i)],
                   least |-> weight
                             * SetSum(inst, [i \in inst |-> Least(singles(i))])]

\* per semester with courses and day BINARY has_any, has_two, single with
\* day_load <= M * has_any, day_load >= has_any, day_load <= 1 + M * has_two,
\* day_load >= 2 * has_two, single == has_any - has_two; weight * sum(single)
add_semester_single_class_day_objective(xs, sems, days, weight) ==
    IF RaisesValueError(sems) THEN Raised("single_day", "ValueError")
    ELSE LET sem_courses == build_courses_by_semester(sems)
             inst == {i \in sems \X (1 .. Len(days)) : sem_courses[i[1]] # {}}
             vals(i) ==
                 LET day_load == DayLoad(xs, days[i[2]], sem_courses[i[1]])
                     M == Len(days[i[2]])
                 IN  {w \in {0, 1} \X {0, 1} \X {0, 1} :
                        /\ day_load <= M * w[1]
                        /\ day_load >= w[1]
                        /\ day_load <= 1 + M * w[2]
                        /\ day_load >= 2 * w[2]
                        /\ w[3] = w[1] - w[2]}
             singles(i) == {w[3] : w \in vals(i)}
         IN  IF \E i \in inst : singles(i) = {} THEN Unlinkable("single_day")
             ELSE [term |-> "single_day", outcome |-> "linked", days |-> days,
                   weight |-> weight,
                   vals |-> [i \in inst |-> vals(i)],
                   least |-> weight
                             * SetSum(inst, [i \in inst |-> Least(singles(i))])]

\* per semester, day, position i of the day and window k in 1 .. max_gap
\* with j = i + k + 1 inside the day: weight * k * (start + end), start and
\* end the quicksum of x of the semester's courses at slots[i] and slots[j];
\* no variable is added, the expression is linear in x
add_semester_gap_objective(xs, sems, days, max_gap, weight) ==
    IF RaisesValueError(sems) THEN Raised("gap", "ValueError")
    ELSE LET courses_by_sem == build_courses_by_semester(sems)
             inst == {i \in sems \X (1 .. Len(days)) \X (1 .. Cardinality(slots))
                             \X (1 .. max_gap) :
                        i[3] + i[4] + 1 <= Len(days[i[2]])}
             start(i) == DayLoad(xs, <<days[i[2]][i[3]]>>, courses_by_sem[i[1]])
             end(i) ==
                 DayLoad(xs, <<days[i[2]][i[3] + i[4] + 1]>>,
                         courses_by_sem[i[1]])
             charges == [i \in inst |-> weight * i[4] * (start(i) + end(i))]
         IN  [term |-> "gap", outcome |-> "linked", days |-> days,
              weight |-> weight, max_gap |-> max_gap, charges |-> charges,
              least |-> SetSum(inst, charges)]

\* ------------------------------------ soft terms applied to one x
\* the seven hard families (coverage as ALLOW_DROPPING_COURSES says)
HardModel ==
    add_single_room_single_course_constr
    (+) add_single_teacher_single_course_constr
    (+) add_no_semester_overlapping_constr
    (+) add_teacher_hard_time_constraints
    (+) add_room_capacity_constr
    (+) add_room_type_constraints
    (+) (IF allow_dropping THEN add_all_courses_scheduled_soft
         ELSE add_all_courses_scheduled_constraint)

\* a course without semester tag (the loaders' default) that any room suits
UntaggedCourse == Course(20, <<>>, "BU", <<"SEMINAR">>)

\* the rooms of the base set moved into one building
OneBuildingRooms ==
    [r \in rooms_id_list |-> [BaseRoom(r) EXCEPT !.address = "M13"]]

\* courses that any room suits and that carry the same semester tags
SameTagCourses(tags) ==
    [c \in 1 .. NumCourses |-> Course(20, tags, "BU", <<"SEMINAR">>)]

\* courses of one study semester that differ in the course type of the tag
MixedTypeCourses ==
    [c \in 1 .. NumCourses |->
        Course(20, << <<"Study 1", 1, IF c = 1 THEN "PFLICHT" ELSE "WAHL">> >>,
               "BU", <<"SEMINAR">>)]

\* entity sets, coverage mode and slot ids the soft terms are applied under
SoftScenarios ==
    { [c |-> BaseCourses, r |-> BaseRooms, drop |-> TRUE,
       slots |-> 1 .. NumSlots],
      [c |-> BaseCourses, r |-> BaseRooms, drop |-> FALSE,
       slots |-> 2 .. NumSlots + 1],
      [c |-> <<UntaggedCourse>>, r |-> BaseRooms, drop |-> FALSE,
       slots |-> 2 .. NumSlots + 1],
      [c |-> <<BaseCourse(2)>>, r |-> OneBuildingRooms, drop |-> FALSE,
       slots |-> 1 .. NumSlots],
      [c |-> SameTagCourses(<< <<"Study 1", 1, "PFLICHT">> >>),
       r |-> BaseRooms, drop |-> FALSE, slots |-> 1 .. NumSlots],
      [c |-> MixedTypeCourses, r |-> BaseRooms, drop |-> FALSE,
       slots |-> 1 .. NumSlots],
      [c |-> SameTagCourses(<< <<"Study 1", 1, "PFLICHT">> >>),
       r |-> BaseRooms, drop |-> FALSE, slots |-> 1 .. NumSlots + 1] }

\* the parameter values the terms are called with
SoftWeights == {1, 3}
RemoteBuildingSets == {{"GSS"}, {"GSS", "M13"}}
Limits == {1, 2}
MaxGaps == {1, 5}
SemesterPairs == {<<sem[1], sem[2]>> : sem \in semesters}
PairLists ==
    {{pr} : pr \in {q \in courses_id_list \X courses_id_list : q[1] # q[2]}}

\* x is any assignment that satisfies the hard families of the entity set
InitSoft ==
    /\ \E sc \in SoftScenarios :
          /\ slots = sc.slots
          /\ teacher_by_id = BaseTeachers
          /\ courses_json = CoursesJson(sc.c, <<>>)
          /\ course_by_id = load_courses(courses_json)
          /\ room_by_id = sc.r
          /\ allow_dropping = sc.drop
    /\ pc = "soft"
    /\ constrs = HardModel
    /\ applied = [f \in Families |-> 1]
    /\ status = "UNSOLVED"
    /\ \E sol \in Feasible(BagToSet(constrs)) :
          /\ x = sol.x
          /\ unscheduled = sol.u
    /\ soft = NoSoftTerm
    /\ ENABLE_SOFTS = ShippedEnable
    /\ ComposerIdle

\* one soft-term function is called on the model and returns or raises
SoftStep(o) ==
    /\ pc = "soft"
    /\ soft' = o
    /\ pc' = "soft_done"
    /\ UNCHANGED <<slots, teacher_by_id, course_by_id, room_by_id, courses_json,
                   allow_dropping, constrs, applied, status, x, unscheduled,
                   composer>>

BuildTeacherTeachAny ==
    IF build_teacher_teach_any(x) = {} THEN SoftStep(Unlinkable("teach_any"))
    ELSE \E f \in build_teacher_teach_any(x) :
            SoftStep([term |-> "teach_any", outcome |-> "linked", aux |-> f])

BuildCourseOcc ==
    IF build_course_occ(x, courses_id_list) = {}
    THEN SoftStep(Unlinkable("course_occ"))
    ELSE \E f \in build_course_occ(x, courses_id_list) :
            SoftStep([term |-> "course_occ", outcome |-> "linked", aux |-> f])

RemoteBuildingLunch ==
    \E remote \in RemoteBuildingSets, weight \in SoftWeights :
        \E o \in add_remote_building_lunch_objcetive(x, remote, weight) :
            SoftStep(o @@ [remote_buildings |-> remote])

TeacherBackToBackBuildingChange ==
    \E weight \in SoftWeights :
        \E o \in add_teacher_back_to_back_building_change_objective(x, weight) :
            SoftStep(o)

LectureBeforeTutorial ==
    \E pairs \in PairLists, weight \in SoftWeights :
        \E o \in add_lecture_before_tutorial_objective(x, pairs, weight) :
            SoftStep(o)

TeacherMaxConsecutive ==
    \E days \in DayPartitions, limit \in Limits, weight \in SoftWeights :
        SoftStep(add_teacher_max_consecutive_objective(x, days, limit, weight))

SemesterMaxClassesPerDay ==
    \E sems \in {semesters, SemesterPairs}, days \in DayPartitions,
       limit \in Limits, weight \in SoftWeights :
        SoftStep(add_semester_max_classes_per_day_objective(
                     x, sems, days, limit, weight) @@ [sems |-> sems])

TeacherMinFreeDays ==
    \E days \in DayPartitions, limit \in Limits, weight \in SoftWeights :
        SoftStep(add_teacher_min_free_days_objective(x, days, limit, weight))

CourseRoomAndBuildingStability ==
    \E weight_room \in SoftWeights, weight_building \in SoftWeights :
        SoftStep(add_course_room_and_building_stability_objective(
                     x, weight_room, weight_building))

SemesterSingleClassDay ==
    \E sems \in {semesters, SemesterPairs}, days \in DayPartitions,
       weight \in SoftWeights :
        SoftStep(add_semester_single_class_day_objective(x, sems, days, weight)
                 @@ [sems |-> sems])

SemesterGap ==
    \E sems \in {semesters, SemesterPairs}, days \in DayPartitions,
       max_gap \in MaxGaps, weight \in SoftWeights :
        SoftStep(add_semester_gap_objective(x, sems, days, max_gap, weight)
                 @@ [sems |-> sems])

NextSoft ==
    \/ BuildTeacherTeachAny
    \/ BuildCourseOcc
    \/ RemoteBuildingLunch
    \/ TeacherBackToBackBuildingChange
    \/ LectureBeforeTutorial
    \/ TeacherMaxConsecutive
    \/ SemesterMaxClassesPerDay
    \/ TeacherMinFreeDays
    \/ CourseRoomAndBuildingStability
    \/ SemesterSingleClassDay
    \/ SemesterGap

SpecSoft == InitSoft /\ [][NextSoft]_vars

\* ------------------------------- objective composer of lp_minimal_2.py
\* weights_by_name of main (COURSE_STABILITY is 0.2 there; the values of the
\* model are integers)
weights_by_name ==
    [n \in Range(SoftNames) |->
        CASE n = "TEACHER_SOFT_TIME" -> WeightTeacherSoftTime
          [] n = "ROOM_WASTE" -> WeightRoomWaste
          [] n = "FACULTY_MISMATCH" -> WeightFacultyMismatch
          [] n = "T_MAX_CONSEC" -> 20
          [] n = "T_MIN_TEACH_DAYS" -> 5
          [] n = "SEM_MAX_PER_DAY" -> 5
          [] n = "SEM_AVOID_EARLY" -> 3
          [] n = "SEM_SINGLE_DAY" -> 2
          [] n = "T_MIN_FREE_DAYS" -> 5
          [] n = "COURSE_STABILITY" -> 1
          [] n = "T_B2B_BUILDING_CHANGE" -> 1
          [] n = "LECT_BEFORE_TUT" -> 5]

\* lecture_tutorial_pairs = []
lecture_tutorial_pairs == {}

\* the days of main: consecutive runs that cover the slot ids
MainDays == <<SubSeq(SlotSeq, 1, 1), SubSeq(SlotSeq, 2, Len(SlotSeq))>>

\* y[t, s] == quicksum(x); teach_day[t, d] >= y[t, s] for the slots of the
\* day; the expression is weight * sum(teach_day)
add_teacher_min_teaching_days_objective(xs, days, weight) ==
    IF build_teacher_teach_any(xs) = {} THEN Unlinkable("min_teach_days")
    ELSE LET y == CHOOSE f \in build_teacher_teach_any(xs) : TRUE
             inst == teachers_id_list \X (1 .. Len(days))
             teach_day == [td \in inst |->
                              Least({v \in {0, 1} :
                                       \A sl \in Range(days[td[2]]) :
                                           v >= y[<<td[1], sl>>]})]
         IN  [term |-> "min_teach_days", outcome |-> "linked", days |-> days,
              weight |-> weight, least |-> weight * SetSum(inst, teach_day)]

\* an expression with the value v on the assignment
Linked(v) == [outcome |-> "linked", value |-> v]

\* the outcome of a term function, its value the least one the auxiliary
\* variables allow
FromTerm(o) ==
    IF o.outcome = "linked" THEN Linked(o.least)
    ELSE [outcome |-> o.outcome, value |-> 0]

\* the calls of main that pass no courses_id_list to a function that
\* requires it as a positional parameter
MissingArgument(n) == n \in {"SEM_MAX_PER_DAY", "SEM_AVOID_EARLY"}

\* the call main makes for the term n, evaluated on the assignment xs
TermCall(n, xs) ==
    CASE n = "TEACHER_SOFT_TIME" -> Linked(add_teacher_soft_time_objective(xs))
      [] n = "ROOM_WASTE" -> Linked(add_room_waste_objective(xs))
      [] n = "FACULTY_MISMATCH" -> Linked(add_faculty_mismatch_objective(xs))
      [] n = "T_MAX_CONSEC" ->
            FromTerm(add_teacher_max_consecutive_objective(
                         xs, MainDays, 2, weights_by_name[n]))
      [] n = "T_MIN_TEACH_DAYS" ->
            FromTerm(add_teacher_min_teaching_days_objective(
                         xs, MainDays, weights_by_name[n]))
      [] MissingArgument(n) -> [outcome |-> "TypeError", value |-> 0]
      [] n = "SEM_SINGLE_DAY" ->
            FromTerm(add_semester_single_class_day_objective(
                         xs, semesters, MainDays, weights_by_name[n]))
      [] n = "T_MIN_FREE_DAYS" ->
            FromTerm(add_teacher_min_free_days_objective(
                         xs, MainDays, 1, weights_by_name[n]))
      [] n = "COURSE_STABILITY" ->
            FromTerm(add_course_room_and_building_stability_objective(
                         xs, weights_by_name[n], weights_by_name[n]))
      [] n = "T_B2B_BUILDING_CHANGE" ->
            LET out == add_teacher_back_to_back_building_change_objective(
                           xs, weights_by_name[n])
            IN  IF \E o \in out : o.outcome # "linked"
                THEN [outcome |-> "unlinkable", value |-> 0]
                ELSE Linked(Least({o.value : o \in out}))
      [] n = "LECT_BEFORE_TUT" ->
            LET out == add_lecture_before_tutorial_objective(
                           xs, lecture_tutorial_pairs, weights_by_name[n])
            IN  IF \E o \in out : o.outcome # "linked"
                THEN [outcome |-> "unlinkable", value |-> 0]
                ELSE Linked(Least({o.value : o \in out}))

\* the branch of main for the term is taken
Taken(n) ==
    /\ ENABLE_SOFTS[n]
    /\ n = "LECT_BEFORE_TUT" => lecture_tutorial_pairs # {}

\* positions of the terms whose call raises; whether a call raises does not
\* depend on x
RaisingCalls ==
    {i \in DOMAIN SoftNames :
        /\ Taken(SoftNames[i])
        /\ TermCall(SoftNames[i], {}).outcome \in {"TypeError", "ValueError"}}

\* every taken branch returns: soft_exprs holds the taken terms
Compose ==
    /\ pc = "compose"
    /\ RaisingCalls = {}
    /\ soft_exprs' = {n \in Range(SoftNames) : Taken(n)}
    /\ pc' = "optimize"
    /\ UNCHANGED <<slots, teacher_by_id, course_by_id, room_by_id, courses_json,
                   allow_dropping, soft, output,
                   constrs, applied, status, x,
                   unscheduled, ENABLE_SOFTS, ObjVal, breakdown, report>>

\* the first call that raises ends main: no objective is set
ComposeRaises ==
    /\ pc = "compose"
    /\ RaisingCalls # {}
    /\ LET first == Least(RaisingCalls)
       IN  /\ soft_exprs' = {SoftNames[i] : i \in {j \in 1 .. first - 1 :
                                                      Taken(SoftNames[j])}}
           /\ status' = TermCall(SoftNames[first], {}).outcome
    /\ pc' = "raised"
    /\ UNCHANGED <<slots, teacher_by_id, course_by_id, room_by_id, courses_json,
                   allow_dropping, soft, output,
                   constrs, applied, x, unscheduled,
                   ENABLE_SOFTS, ObjVal, breakdown, report>>

\* quicksum(soft_exprs.values()), 0.0 when the dict is empty
ComposedObjective(xs) ==
    SetSum(soft_exprs, [n \in soft_exprs |-> TermCall(n, xs).value])

\* m.optimize() on the hard constraints, the linking constraints of the
\* terms in soft_exprs and the composed objective
OptimizeComposed ==
    /\ pc = "optimize"
    /\ LET feas == {sol \in Feasible(BagToSet(constrs)) :
                       \A n \in soft_exprs :
                           TermCall(n, sol.x).outcome = "linked"}
       IN  IF feas = {}
           THEN /\ status' = "INFEASIBLE"
                /\ pc' = "diagnose"
                /\ UNCHANGED <<x, unscheduled, ObjVal>>
           ELSE \E sol \in feas :
                   /\ x' = sol.x
                   /\ unscheduled' = sol.u
                   /\ ObjVal' = ComposedObjective(sol.x)
                   /\ status' =
                         IF \A other \in feas :
                               ComposedObjective(sol.x)
                                   <= ComposedObjective(other.x)
                         THEN "OPTIMAL" ELSE "SUBOPTIMAL"
                   /\ pc' = "breakdown"
    /\ UNCHANGED <<slots, teacher_by_id, course_by_id, room_by_id, courses_json,
                   allow_dropping, soft, output,
                   constrs, applied, ENABLE_SOFTS,
                   soft_exprs, breakdown, report>>

\* total += float(expr.getValue()) over the items of soft_exprs
print_objective_breakdown ==
    [printed |-> TRUE,
     values |-> [n \in soft_exprs |-> TermCall(n, x).value],
     total |-> SetSum(soft_exprs, [n \in soft_exprs |-> TermCall(n, x).value]),
     obj_val |-> ObjVal]

Breakdown ==
    /\ pc = "breakdown"
    /\ status \in {"OPTIMAL", "SUBOPTIMAL"}
    /\ breakdown' = print_objective_breakdown
    /\ pc' = "done"
    /\ UNCHANGED <<slots, teacher_by_id, course_by_id, room_by_id, courses_json,
                   allow_dropping, soft, output,
                   constrs, applied, status, x,
                   unscheduled, ENABLE_SOFTS, soft_exprs, ObjVal, report>>

\* --------------------------------------------- infeasibility diagnoser
Digits == <<"0", "1", "2", "3", "4", "5", "6", "7", "8", "9">>

\* f"{n}" of an id
Str(n) == Digits[n + 1]

\* int(s) returns a value for the decimal strings only
IsInt(s) == \E n \in 0 .. 9 : Str(n) = s
int(s) == CHOOSE n \in 0 .. 9 : Str(n) = s

\* the room type names in the order sorted(..., key = name) gives them
RoomTypeByName == <<"COMPUTER", "LAB", "LECTURE", "SEMINAR">>

\* '_'.join(names) split at "_" again; the empty join is one empty part
JoinedTypes(types) ==
    IF types = {} THEN <<"">>
    ELSE SelectSeq(RoomTypeByName, LAMBDA ty : ty \in types)

\* the name the family function gives the constraint, as name.split("_")
ConstrName(k) ==
    CASE k.fam = "room" ->
            <<"room", Str(k.ids[1]), "slot", Str(k.ids[2]), "have", "no",
              "more", "than", "1", "course", "by", "1", "teacher", "in",
              "them">>
      [] k.fam = "teacher" ->
            <<"teacher", Str(k.ids[1]), "has", "1", "course", "in", "1",
              "room", "at", "time", "slot", Str(k.ids[2])>>
      [] k.fam = "semester" ->
            <<"no", "more", "than", "1", "course", "at", "time",
              Str(k.ids[1]), "for", "semester",
              k.ids[2][1] \o Str(k.ids[2][2]) \o k.ids[2][3]>>
      [] k.fam = "teacher_hard_time" ->
            <<"teacher", Str(k.ids[1]), "hard", "time", Str(k.ids[2]),
              "must", "be", "fulfilled">>
      [] k.fam = "capacity" ->
            <<"course", Str(k.ids[3]), "expected", "capacity", "is", "le",
              "than", "room", Str(k.ids[4]) \o "'s", "capacity">>
      [] k.fam = "room_type" ->
            <<"course", Str(k.ids[1][3]), "needs">>
            \o JoinedTypes(k.ids[2])
            \o <<"slot", Str(k.ids[1][1]), "teacher", Str(k.ids[1][2]),
                 "room", Str(k.ids[1][4])>>
      [] k.fam = "coverage" ->
            <<"there", "is", "at", "least", "1", "slot", "1", "room", "1",
              "teacher", "assigned", "to", "course", Str(k.ids[1])>>
      [] k.fam = "scheduled_or_dropped" ->
            <<"course", Str(k.ids[1]), "scheduled", "or", "dropped">>

\* name.startswith(prefix + "_")
StartsWith(name, prefix) ==
    Len(name) > Len(prefix) /\ SubSeq(name, 1, Len(prefix)) = prefix

\* ("_" + mid) in name
ContainsTail(name, mid) ==
    \E i \in 2 .. Len(name) - Len(mid) + 1 :
        SubSeq(name, i, i + Len(mid) - 1) = mid

\* ("_" + mid + "_") in name
ContainsInner(name, mid) ==
    \E i \in 2 .. Len(name) - Len(mid) :
        SubSeq(name, i, i + Len(mid) - 1) = mid

CoveragePrefix ==
    <<"there", "is", "at", "least", "1", "slot", "1", "room", "1", "teacher",
      "assigned", "to", "course">>

\* the branch of the if / elif chain of lp_minimal_2 the name takes
Branch(name) ==
    IF StartsWith(name, <<"teacher">>)
       /\ ContainsTail(name, <<"must", "be", "fulfilled">>)
    THEN "teacher"
    ELSE IF StartsWith(name, CoveragePrefix) THEN "coverage"
    ELSE IF /\ StartsWith(name, <<"course">>)
            /\ ContainsInner(name, <<"needs">>)
            /\ ContainsInner(name, <<"allowed">>)
    THEN "room_type"
    ELSE IF StartsWith(name, <<"course">>) THEN "course"
    ELSE "none"

\* the branch of the if / elif chain of lp_minimal the name takes
BranchMinimal(name) ==
    IF StartsWith(name, <<"room">>) THEN "room"
    ELSE IF /\ StartsWith(name, <<"teacher">>)
            /\ ContainsInner(name, <<"has", "1", "course", "in", "1", "room",
                                     "at", "time", "slot">>)
    THEN "teacher_exclusive"
    ELSE IF StartsWith(name, <<"no", "more", "than", "1", "course", "at",
                               "time">>)
    THEN "semester"
    ELSE IF /\ StartsWith(name, <<"teacher">>)
            /\ ContainsTail(name, <<"must", "be", "fulfilled">>)
    THEN "teacher"
    ELSE IF StartsWith(name, <<"course">>) THEN "course"
    ELSE IF StartsWith(name, <<"course">>) /\ ContainsInner(name, <<"needs">>)
    THEN "room_type"
    ELSE IF StartsWith(name, CoveragePrefix) THEN "coverage"
    ELSE "none"

\* the variables of the course
CourseVars(c) == {q \in Keys : q[3] = c}

\* the "== 0" constraints of the set that fix the variable
Fixers(cs, q) == {k \in cs : k.sense = "==" /\ k.rhs = 0 /\ q \in k.vars}

\* the constraints fix every variable of the course
Covers(F, c) == CourseVars(c) \subseteq UNION {k.vars : k \in F}

\* m.computeIIS(): the irreducible infeasible subsystems made of the
\* coverage constraint of a course and "== 0" constraints that fix all of its
\* variables, none of which can be left out
IIS(cs) ==
    UNION { { {cov} \cup F :
                F \in { G \in { Range(f) :
                                  f \in Choices(CourseVars(cov.ids[1]),
                                                [q \in CourseVars(cov.ids[1])
                                                    |-> Fixers(cs, q)]) } :
                          \A k \in G : ~Covers(G \ {k}, cov.ids[1]) } }
            : cov \in {k \in cs : k.fam = "coverage"} }

\* every irreducible infeasible subsystem of the constraints: the infeasible
\* subsets that become feasible when any one constraint is left out
IrreducibleInfeasible(cs) ==
    LET infeasible == {S \in SUBSET cs : Feasible(S) = {}}
    IN  {S \in infeasible : \A k \in S : (S \ {k}) \notin infeasible}

\* the conflict sets m.computeIIS() can mark: all of them for a model of at
\* most MaxSearch constraints, those of the course-fixing form for a larger
\* one
ConflictSets(cs) ==
    IF Cardinality(cs) <= MaxSearch THEN IrreducibleInfeasible(cs)
    ELSE IIS(cs)

\* the hard-time constraints of the conflict set in the order of
\* m.getConstrs(), the order in which they were added
HardTimeInOrder(iis) ==
    LET done == CompletedVisits(HardTimeVisits(1))
    IN  SelectSeq([i \in 1 .. Len(done) |-> HardTimeConstr(done[i])],
                  LAMBDA k : k \in iis)

\* unschedulable_teachers_hard_time_dict[t_id] = slot, constraint by
\* constraint: the last assignment to a key stays
unschedulable_teachers_hard_time_dict(iis) ==
    LET names == [i \in DOMAIN HardTimeInOrder(iis) |->
                     ConstrName(HardTimeInOrder(iis)[i])]
        hits == {i \in DOMAIN names : Branch(names[i]) = "teacher"}
        last(t) == CHOOSE i \in hits :
                      /\ int(names[i][2]) = t
                      /\ \A j \in hits : int(names[j][2]) = t => j <= i
    IN  [t \in {int(names[i][2]) : i \in hits} |-> int(names[last(t)][5])]

\* c_id of the coverage branch (after the last "_") and of the fallback
\* branch (parts[1], skipped when int() raises)
unschedulable_courses(iis) ==
    {int(ConstrName(k)[Len(ConstrName(k))])
       : k \in {j \in iis : Branch(ConstrName(j)) = "coverage"}}
    \cup {int(ConstrName(k)[2])
            : k \in {j \in iis : /\ Branch(ConstrName(j)) = "course"
                                 /\ IsInt(ConstrName(j)[2])}}

\* name.split("_allowed_", 1)[1].split("_")
AllowedPart(name) ==
    LET i == CHOOSE j \in 2 .. Len(name) - 1 :
                /\ name[j] = "allowed"
                /\ \A l \in 2 .. j - 1 : name[l] # "allowed"
    IN  SubSeq(name, i + 1, Len(name))

\* allowed_types = [] unless a name takes the room-type branch; the last
\* such name in the order of m.getConstrs() stays
allowed_types_not_found(iis) ==
    LET hits == {k \in iis : Branch(ConstrName(k)) = "room_type"}
    IN  IF hits = {} THEN <<>>
        ELSE AllowedPart(ConstrName(
                 CHOOSE k \in hits :
                    \A j \in hits \ {k} : Before(j.ids[1], k.ids[1])))

get_unschedulable_objects_from_iis(iis) ==
    [made |-> TRUE,
     version |-> "lp_minimal_2",
     iis |-> iis,
     handled |-> [k \in iis |-> Branch(ConstrName(k))],
     courses |-> unschedulable_courses(iis),
     teachers |-> unschedulable_teachers_hard_time_dict(iis),
     room_types |-> allowed_types_not_found(iis)]

\* get_unschedulable_objects_from_iis of lp_minimal: the course ids of the
\* generic and the coverage branch, the same teacher dict, and allowed_types
\* of the names that reach the room-type branch
get_unschedulable_objects_from_iis_minimal(iis) ==
    LET taken == [k \in iis |-> BranchMinimal(ConstrName(k))]
        hits == {k \in iis : taken[k] = "room_type"}
    IN  [made |-> TRUE,
         version |-> "lp_minimal",
         iis |-> iis,
         handled |-> taken,
         courses |->
             {int(ConstrName(k)[2]) : k \in {j \in iis : taken[j] = "course"}}
             \cup {int(ConstrName(k)[Len(ConstrName(k))])
                     : k \in {j \in iis : taken[j] = "coverage"}},
         teachers |-> unschedulable_teachers_hard_time_dict(iis),
         room_types |->
             IF hits = {} THEN <<>>
             ELSE AllowedPart(ConstrName(
                      CHOOSE k \in hits :
                         \A j \in hits \ {k} : Before(j.ids[1], k.ids[1])))]

\* the INFEASIBLE branch of main
Diagnose ==
    /\ pc = "diagnose"
    /\ status = "INFEASIBLE"
    /\ \E iis \in ConflictSets(BagToSet(constrs)) :
          report' = get_unschedulable_objects_from_iis(iis)
    /\ pc' = "done"
    /\ UNCHANGED <<slots, teacher_by_id, course_by_id, room_by_id, courses_json,
                   allow_dropping, soft, output,
                   constrs, applied, status, x,
                   unscheduled, ENABLE_SOFTS, soft_exprs, ObjVal, breakdown>>

\* the INFEASIBLE branch of the main of lp_minimal
DiagnoseMinimal ==
    /\ pc = "diagnose"
    /\ status = "INFEASIBLE"
    /\ \E iis \in ConflictSets(BagToSet(constrs)) :
          report' = get_unschedulable_objects_from_iis_minimal(iis)
    /\ pc' = "done"
    /\ UNCHANGED <<slots, teacher_by_id, course_by_id, room_by_id, courses_json,
                   allow_dropping, soft, output,
                   constrs, applied, status, x,
                   unscheduled, ENABLE_SOFTS, soft_exprs, ObjVal, breakdown>>

\* --------------------------------------------- the flow of lp_minimal_2
\* every slot of the set, in order
SeqOf(sl) == [i \in 1 .. Cardinality(sl) |-> Least(sl) + i - 1]

\* every teacher is forced off in every slot of the set
BlockedTeachers(sl) == [t \in teachers_id_list |-> Teacher(SeqOf(sl), <<>>)]

\* slot ids and entity sets the flow is run on
ComposeScenarios ==
    { [slots |-> {1}, t |-> BaseTeachers, r |-> BaseRooms,
       c |-> SameTagCourses(<< <<"Study 1", 1, "PFLICHT">> >>)],
      [slots |-> {1}, t |-> BaseTeachers, r |-> BaseRooms,
       c |-> SameTagCourses(<< <<"Study 1", 1, "PFLICHT">>,
                               <<"Study 2", 1, "WAHL">> >>)] } \cup
    { [slots |-> 1 .. NumSlots, t |-> BaseTeachers, c |-> BaseCourses,
       r |-> BaseRooms],
      [slots |-> 1 .. NumSlots,
       t |-> [t \in teachers_id_list |->
                 IF t = 1 THEN Teacher(<<>>, <<1>>) ELSE BaseTeacher(t)],
       c |-> BaseCourses, r |-> BaseRooms],
      [slots |-> 1 .. NumSlots, t |-> BaseTeachers, c |-> <<UntaggedCourse>>,
       r |-> BaseRooms],
      [slots |-> 1 .. NumSlots, t |-> BlockedTeachers(1 .. NumSlots),
       c |-> BaseCourses, r |-> BaseRooms],
      [slots |-> {1}, t |-> BlockedTeachers({1}), c |-> BaseCourses,
       r |-> BaseRooms],
      [slots |-> 1 .. NumSlots, t |-> BaseTeachers, c |-> BaseCourses,
       r |-> [r \in rooms_id_list |->
                 IF r = 1 THEN Room("COMPUTER", "BU", 20, "GSS")
                 ELSE BaseRoom(r)]],
      [slots |-> 1 .. NumSlots, t |-> BaseTeachers, c |-> BaseCourses,
       r |-> [r \in rooms_id_list |->
                 IF r = 1 THEN Room("LECTURE", "BU", 10, "GSS")
                 ELSE BaseRoom(r)]] }

\* the flag settings the flow is run under: the one of main and those with
\* at most MaxEnabled terms enabled
EnableConfigs ==
    {ShippedEnable}
    \cup { [n \in Range(SoftNames) |-> n \in S]
           : S \in {T \in SUBSET Range(SoftNames) :
                      Cardinality(T) <= MaxEnabled} }

InitCompose ==
    /\ \E sc \in ComposeScenarios :
          /\ slots = sc.slots
          /\ teacher_by_id = sc.t
          /\ courses_json = CoursesJson(sc.c, <<>>)
          /\ course_by_id = load_courses(courses_json)
          /\ room_by_id = sc.r
    /\ allow_dropping = FALSE
    /\ pc = "compose"
    /\ constrs = HardModel
    /\ applied = [f \in Families |-> 1]
    /\ status = "UNSOLVED"
    /\ x = {}
    /\ unscheduled = {}
    /\ soft = NoSoftTerm
    /\ ENABLE_SOFTS \in EnableConfigs
    /\ ComposerIdle

NextCompose ==
    \/ Compose
    \/ ComposeRaises
    \/ OptimizeComposed
    \/ Breakdown
    \/ Diagnose
    \/ DiagnoseMinimal

SpecCompose == InitCompose /\ [][NextCompose]_vars

\* -------------------------------------------------------------- claims
\* the solver returned an assignment that satisfies the compiled constraints
Assigned == status \in {"OPTIMAL", "SUBOPTIMAL"}

\* number of 1-valued quadruples of course c
TimesScheduled(c) == Cardinality({q \in x : q[3] = c})

\* the variables the constraints of one family fix to 0
FixedBy(fam) ==
    UNION {k.vars : k \in {j \in BagToSet(constrs) :
                              j.fam = fam /\ j.sense = "==" /\ j.rhs = 0}}

\* C1: an assignment that satisfies the compiled hard constraints has at most
\* one 1-valued quadruple per (slot, room) and at most one per (slot, teacher).
C1_Exclusivity ==
    Assigned =>
        /\ \A s \in slots, r \in rooms_id_list :
              Cardinality({q \in x : q[1] = s /\ q[4] = r}) <= 1
        /\ \A s \in slots, t \in teachers_id_list :
              Cardinality({q \in x : q[1] = s /\ q[2] = t}) <= 1

\* two sessions run in the same slot, in different rooms with different teachers
C1_Witness ==
    /\ Assigned
    /\ \E p \in x, q \in x : p # q /\ p[1] = q[1]

\* C2: two distinct courses that share a (study_program, semester_number)
\* pair, whatever their course_type, are never scheduled in the same slot.
C2_SemesterPairNonOverlap ==
    Assigned =>
        \A p \in x, q \in x :
            (/\ p[3] # q[3]
             /\ \E a \in Range(course_by_id[p[3]].semester),
                   b \in Range(course_by_id[q[3]].semester) :
                   a[1] = b[1] /\ a[2] = b[2])
            => p[1] # q[1]

\* C3: no assignment that satisfies the compiled hard constraints has a
\* teacher teaching in a slot of the teacher's hard_time_constr.
C3_TeacherHardTime ==
    Assigned =>
        \A q \in x : q[1] \notin Range(teacher_by_id[q[2]].hard_time_constr)

\* a teacher with a hard-unavailable slot teaches in another slot
C3_Witness ==
    /\ Assigned
    /\ \E q \in x : teacher_by_id[q[2]].hard_time_constr # <<>>

\* C4: the room-capacity family fixes x[s,t,c,r] to 0 exactly for the (c, r)
\* with expected_num_students(c) > capacity(r), for all slots and teachers;
\* equal numbers are not forbidden.
C4_CapacityFixings ==
    applied["capacity"] >= 1 =>
        FixedBy("capacity") =
            {q \in Keys : course_by_id[q[3]].expected_num_students
                            > room_by_id[q[4]].capacity}

\* the family ran on a course that exactly fills one room and exceeds another
C4_Witness ==
    /\ applied["capacity"] >= 1
    /\ \E c \in courses_id_list, r1 \in rooms_id_list, r2 \in rooms_id_list :
          /\ course_by_id[c].expected_num_students = room_by_id[r1].capacity
          /\ course_by_id[c].expected_num_students > room_by_id[r2].capacity
          /\ FixedBy("capacity") # {}

\* closure(facility_constr(c)): LECTURE, LAB and COMPUTER are added when
\* SEMINAR is allowed, nothing otherwise
Closure(c) ==
    LET fc == Range(course_by_id[c].facility_constr)
    IN  fc \cup {ty \in {"LECTURE", "LAB", "COMPUTER"} : "SEMINAR" \in fc}

\* C5: the room-type family fixes x[s,t,c,r] to 0 exactly when type(r) is not
\* in closure(facility_constr(c)); a course allowing SEMINAR may use rooms of
\* all four types, a course allowing only LECTURE only LECTURE rooms.
C5_RoomTypeFixings ==
    applied["room_type"] >= 1 =>
        /\ FixedBy("room_type") =
              {q \in Keys : room_by_id[q[4]].type \notin Closure(q[3])}
        /\ \A q \in Keys :
              "SEMINAR" \in Range(course_by_id[q[3]].facility_constr)
              => q \notin FixedBy("room_type")
        /\ \A q \in Keys :
              Range(course_by_id[q[3]].facility_constr) = {"LECTURE"}
              => (q \in FixedBy("room_type")
                    <=> room_by_id[q[4]].type # "LECTURE")

\* the family ran on a SEMINAR course facing a room of another type and on a
\* LECTURE-only course facing a room that is no lecture room
C5_Witness ==
    /\ applied["room_type"] >= 1
    /\ \E c \in courses_id_list, r \in rooms_id_list :
          /\ "SEMINAR" \in Range(course_by_id[c].facility_constr)
          /\ room_by_id[r].type # "SEMINAR"
    /\ \E c \in courses_id_list, r \in rooms_id_list :
          /\ Range(course_by_id[c].facility_constr) = {"LECTURE"}
          /\ room_by_id[r].type # "LECTURE"

\* C6: in the hard-coverage model every satisfying assignment has at least one
\* 1-valued quadruple for every course.
C6_HardCoverage ==
    (Assigned /\ ~allow_dropping) =>
        \A c \in courses_id_list : TimesScheduled(c) >= 1

\* a hard-coverage model with two courses was solved
C6_Witness ==
    /\ Assigned
    /\ ~allow_dropping
    /\ Cardinality(courses_id_list) >= 2
    /\ Cardinality(x) >= 2

\* C7: in the hard-coverage model with the base soft terms, every
\* minimum-objective assignment schedules every course exactly once.
C7_OptimalExactlyOnce ==
    (status = "OPTIMAL" /\ ~allow_dropping) =>
        \A c \in courses_id_list : TimesScheduled(c) = 1

\* C8: each hard-constraint function returns normally for every content of
\* the teachers' hard_time_constr lists, slot ids outside the range included.
C8_NoKeyError == status # "KeyError"

\* C10: in the soft-coverage model every satisfying assignment has, for every
\* course, either exactly one 1-valued quadruple and unscheduled = 0 or none
\* and unscheduled = 1.
C10_ScheduledXorDropped ==
    (Assigned /\ allow_dropping) =>
        \A c \in courses_id_list :
            \/ TimesScheduled(c) = 1 /\ c \notin unscheduled
            \/ TimesScheduled(c) = 0 /\ c \in unscheduled

\* a soft-coverage solve that schedules one course and drops another
C10_Witness ==
    /\ Assigned
    /\ allow_dropping
    /\ \E c \in courses_id_list : TimesScheduled(c) = 1
    /\ unscheduled # {}

\* constraints of one family in m, counted with multiplicity
CountOf(f) ==
    LET ks == {k \in BagToSet(constrs) : k.fam = f}
    IN  SetSum(ks, [k \in ks |-> CopiesIn(k, constrs)])

\* constraints one call of a family emits, from the entities alone
ExpectedCount(f) ==
    LET nS == Cardinality(slots)
        nT == Cardinality(teachers_id_list)
        pairs == courses_id_list \X rooms_id_list
    IN  CASE f = "room" -> Cardinality(rooms_id_list) * nS
          [] f = "teacher" -> nT * nS
          [] f = "semester" -> Cardinality(semesters) * nS
          [] f = "teacher_hard_time" ->
                SetSum(teachers_id_list,
                       [t \in teachers_id_list |->
                           Len(teacher_by_id[t].hard_time_constr)])
          [] f = "capacity" ->
                Cardinality({cr \in pairs :
                               course_by_id[cr[1]].expected_num_students
                                 > room_by_id[cr[2]].capacity}) * nS * nT
          [] f = "room_type" ->
                Cardinality({cr \in pairs :
                               room_by_id[cr[2]].type \notin Closure(cr[1])})
                  * nS * nT
          [] f = "coverage" -> Cardinality(courses_id_list)

\* C9: whatever the order of the calls and however often a family is
\* repeated, every family's constraint count is its number of calls times a
\* count fixed by the entities, and the set of distinct constraints (hence the
\* set of satisfying assignments and the variables fixed to 0) is the union of
\* what each called family compiles from the entities.
C9_OrderIndependentIdempotent ==
    pc = "any_order" =>
        /\ \A f \in Families : CountOf(f) = applied[f] * ExpectedCount(f)
        /\ BagToSet(constrs) =
              UNION {BagToSet(FamilyConstrs(f)) :
                       f \in {g \in Families : applied[g] >= 1}}

\* all seven families were called, one of them twice, with variables fixed
C9_Witness ==
    /\ pc = "any_order"
    /\ \A f \in Families : applied[f] >= 1
    /\ \E f \in Families : applied[f] = 2
    /\ FixedBy("capacity") # {}
    /\ FixedBy("room_type") # {}

\* no room of the set has a type course c may use
NoCompatibleRoom(c) ==
    \A r \in rooms_id_list : room_by_id[r].type \notin Closure(c)

\* C11: with soft coverage the compiled model is feasible for every entity
\* set it compiles from, and a course for which no room has a compatible type
\* has drop indicator 1 in every satisfying assignment, which still satisfies
\* all constraints of the other hard families.
C11_SoftCoverageFeasible ==
    (pc = "report" /\ allow_dropping) =>
        /\ status # "INFEASIBLE"
        /\ \A c \in courses_id_list :
              NoCompatibleRoom(c) => c \in unscheduled /\ TimesScheduled(c) = 0
        /\ Satisfies(x, unscheduled,
                     {k \in BagToSet(constrs) : k.fam # "scheduled_or_dropped"})

\* a soft-coverage solve drops a course without compatible room and schedules
\* another course
C11_Witness ==
    /\ pc = "report"
    /\ allow_dropping
    /\ Assigned
    /\ \E c \in courses_id_list : NoCompatibleRoom(c) /\ c \in unscheduled
    /\ x # {}

\* C12: with DROP_PENALTY = 1e6 and the base weights 100/70/50, every
\* minimum-objective assignment of the soft-coverage model drops as few
\* courses as any satisfying assignment does.
C12_MinimalDrops ==
    (status = "OPTIMAL" /\ allow_dropping) =>
        \A sol \in Feasible(BagToSet(constrs)) :
            Cardinality(sol.u) >= Cardinality(unscheduled)

\* x satisfies every constraint the hard families compiled
HardFeasible == Satisfies(x, unscheduled, BagToSet(constrs))

\* C13: no soft-term function or helper restricts x: every assignment that
\* satisfies the hard families can be extended with values of the auxiliary
\* variables that satisfy the linking constraints the function adds.
C13_SoftTermsLeaveXFree ==
    (soft.term # "none" /\ HardFeasible) => soft.outcome # "unlinkable"

\* C14: every auxiliary variable z of an AND-linearization (remote-building
\* lunch, back-to-back building change, lecture before tutorial) is 1 in a
\* satisfying assignment exactly when both linked binaries a and b are 1.
C14_AndLinearizationExact ==
    (soft.term \in {"lunch", "b2b", "lect_tut"} /\ soft.outcome = "linked") =>
        \A i \in DOMAIN soft.z :
            soft.z[i] = 1 <=> (soft.a[i] = 1 /\ soft.b[i] = 1)

\* a teacher changes building between two adjacent slots: one z is 1, another 0
C14_Witness ==
    /\ soft.term = "b2b"
    /\ soft.outcome = "linked"
    /\ \E i \in DOMAIN soft.z : soft.z[i] = 1
    /\ \E i \in DOMAIN soft.z : soft.z[i] = 0

\* teacher t teaches in slot sl
Teaches(t, sl) == \E q \in x : q[1] = sl /\ q[2] = t

\* the courses of a cohort, a (study_program, semester_number) pair
Cohort(pair) ==
    {c \in courses_id_list :
        \E tag \in Range(course_by_id[c].semester) :
            tag[1] = pair[1] /\ tag[2] = pair[2]}

\* sum over (semester, day) of max(0, classes that day - limit)
ExcessClasses(days, limit) ==
    LET sd == SemesterPairs \X (1 .. Len(days))
    IN  SetSum(sd, [i \in sd |->
                      Max(0, Cardinality({q \in x :
                                            /\ q[1] \in Range(days[i[2]])
                                            /\ q[3] \in Cohort(i[1])})
                             - limit)])

\* sum over teachers of max(0, days taught - max(0, num_days - min_free_days))
ExcessTeachingDays(days, min_free_days) ==
    SetSum(teachers_id_list,
           [t \in teachers_id_list |->
               Max(0, Cardinality({d \in 1 .. Len(days) :
                                     \E sl \in Range(days[d]) : Teaches(t, sl)})
                      - Max(0, Len(days) - min_free_days))])

\* number of (teacher, window): max_consecutive + 1 consecutive slots of one
\* day, all taught by the teacher
FullWindows(days, max_consecutive) ==
    Cardinality({w \in teachers_id_list \X (1 .. Len(days)) \X slots :
                    \A k \in 0 .. max_consecutive :
                        /\ w[3] + k \in Range(days[w[2]])
                        /\ Teaches(w[1], w[3] + k)})

\* C15: for a fixed hard-feasible x the least value of each threshold term is
\* weight times the true excess: classes per (semester, day) beyond
\* max_classes_per_day; days taught per teacher beyond
\* max(0, num_days - min_free_days); windows of max_consecutive + 1 slots of
\* one day fully taught by one teacher.
C15_ThresholdTermsMeasureExcess ==
    /\ soft.term = "max_per_day" =>
          /\ soft.outcome = "linked"
          /\ soft.least = soft.weight * ExcessClasses(soft.days, soft.limit)
    /\ soft.term = "min_free_days" =>
          /\ soft.outcome = "linked"
          /\ soft.least
               = soft.weight * ExcessTeachingDays(soft.days, soft.limit)
    /\ soft.term = "max_consec" =>
          /\ soft.outcome = "linked"
          /\ soft.least = soft.weight * FullWindows(soft.days, soft.limit)

\* the rooms and the buildings the sessions of course c use
RoomsUsed(c) == {q[4] : q \in {k \in x : k[3] = c}}
BuildingsUsed(c) == {room_by_id[r].address : r \in RoomsUsed(c)}

\* C16: for a fixed satisfying x the least value of the stability term that a
\* course contributes is weight_room * max(0, distinct rooms - 1)
\* + weight_building * max(0, distinct buildings - 1), never negative, also
\* for a course without session.
C16_StabilityPerCourse ==
    soft.term = "stability" =>
        \A c \in courses_id_list :
            /\ soft.per_course[c]
                 = soft.weight_room * Max(0, Cardinality(RoomsUsed(c)) - 1)
                   + soft.weight_building
                     * Max(0, Cardinality(BuildingsUsed(c)) - 1)
            /\ soft.per_course[c] >= 0

\* teacher t teaches in a room of a remote building in slot sl
InRemoteBuilding(t, sl, remote) ==
    \E q \in x : /\ q[1] = sl
                 /\ q[2] = t
                 /\ room_by_id[q[4]].address \in remote

\* what the lunch term charges teacher t for the lunch pair
LunchCharge(t, pair) ==
    LET mine == {i \in DOMAIN soft.z : i[1] = pair /\ i[2] = t}
    IN  soft.weight * SetSum(mine, [i \in mine |-> soft.z[i]])

\* C17: for every lunch pair (s1, s2) inside the slot range and every teacher
\* the lunch term charges the teacher when the teacher is in a remote building
\* in both slots, whatever the courses and rooms, and nothing otherwise.
C17_LunchChargesTeacher ==
    soft.term = "lunch" =>
        \A pair \in {p \in lunch_pairs : p[1] \in slots /\ p[2] \in slots},
           t \in teachers_id_list :
            IF /\ InRemoteBuilding(t, pair[1], soft.remote_buildings)
               /\ InRemoteBuilding(t, pair[2], soft.remote_buildings)
            THEN LunchCharge(t, pair) > 0
            ELSE LunchCharge(t, pair) = 0

\* the value of the terms whose flag is set, on the assignment
EnabledSum(xs) ==
    SetSum({n \in Range(SoftNames) : ENABLE_SOFTS[n]},
           [n \in Range(SoftNames) |-> TermCall(n, xs).value])

\* C18: under every setting of the enable flags the composer hands the
\* solver an objective (no call of a term function raises), the objective
\* value of the returned assignment is the sum of the values of exactly the
\* enabled terms, and the values the breakdown re-evaluates sum to the
\* reported objective value.
C18_ObjectiveIsEnabledSum ==
    /\ pc # "raised"
    /\ pc \in {"breakdown", "done"} /\ status \in {"OPTIMAL", "SUBOPTIMAL"}
          => ObjVal = EnabledSum(x)
    /\ breakdown.printed => breakdown.total = breakdown.obj_val

\* C19: the teacher map the diagnoser returns holds t -> s for every
\* teacher-hard-unavailability constraint (t, s) of the conflict set, also
\* when the set holds several constraints of one teacher; where slot 1 is
\* the only slot and it is forced off, the teachers of the conflict set are
\* mapped to slot 1.
C19_TeacherMapComplete ==
    report.made =>
        /\ \A k \in report.iis :
              k.fam = "teacher_hard_time"
              => /\ k.ids[1] \in DOMAIN report.teachers
                 /\ report.teachers[k.ids[1]] = k.ids[2]
        /\ slots = {1} /\ (\E k \in report.iis : k.fam = "teacher_hard_time")
              => \E t \in DOMAIN report.teachers : report.teachers[t] = 1

\* C20: when the conflict set holds a room-type-compatibility constraint of
\* a course, the room types the report lists as not satisfied include the
\* room types that course needs.
C20_RoomTypesReported ==
    report.made =>
        \A k \in report.iis :
            k.fam = "room_type"
            => allowed_types(k.ids[1][3]) \subseteq Range(report.room_types)

\* the name has the form add_room_type_constraints gives its constraints,
\* the pattern of the room-type branch of lp_minimal
RoomTypeNeedPattern(name) ==
    StartsWith(name, <<"course">>) /\ ContainsInner(name, <<"needs">>)

\* the family the fixed priority order teacher-hard-unavailability,
\* course-coverage, room-type-need, generic assigns the name to
FirstMatchingFamily(name) ==
    IF StartsWith(name, <<"teacher">>)
       /\ ContainsTail(name, <<"must", "be", "fulfilled">>)
    THEN "teacher"
    ELSE IF StartsWith(name, CoveragePrefix) THEN "coverage"
    ELSE IF RoomTypeNeedPattern(name) THEN "room_type"
    ELSE IF StartsWith(name, <<"course">>) THEN "course"
    ELSE "none"

\* C21: in both versions of the diagnoser every constraint of the conflict
\* set is handled by the first matching family in the order
\* teacher-hard-unavailability, course-coverage, room-type-need, generic; a
\* constraint with a room-type-need name is never handled by the generic
\* course branch.
C21_FirstMatchingBranch ==
    report.made =>
        \A k \in report.iis :
            /\ RoomTypeNeedPattern(ConstrName(k))
                  => report.handled[k] # "course"
            /\ report.handled[k] = FirstMatchingFamily(ConstrName(k))

\* the variables of the course that no "== 0" constraint of the model fixes
FreeVars(c) == {q \in CourseVars(c) : Fixers(BagToSet(constrs), q) = {}}

\* the two courses share the tag, each can be placed in slot s only, and
\* they can be placed there with different teachers in different rooms
SameSlotPair(c1, c2, sem, s) ==
    /\ c1 # c2
    /\ sem \in Range(course_by_id[c1].semester)
    /\ sem \in Range(course_by_id[c2].semester)
    /\ {q[1] : q \in FreeVars(c1)} = {s}
    /\ {q[1] : q \in FreeVars(c2)} = {s}
    /\ \E q1 \in FreeVars(c1), q2 \in FreeVars(c2) :
          q1[2] # q2[2] /\ q1[4] # q2[4]

\* the cases of SameSlotPair in the model of the state
SameSlotPairs ==
    {p \in courses_id_list \X courses_id_list \X semesters \X slots :
        SameSlotPair(p[1], p[2], p[3], p[4])}

Solved == pc \in {"breakdown", "diagnose", "done"}

OptimalOutput ==
    IF output.flow = "main" THEN main_report("OPTIMAL")
    ELSE report_schedule_solution("OPTIMAL")

\* C23: what a flow prints for an optimal schedule is printed only when the
\* status is OPTIMAL; a SUBOPTIMAL incumbent is shown, and under a label
\* other than the one of an optimal schedule.
C23_SuboptimalReportedAsSuch ==
    output.made =>
        /\ output.label = OptimalOutput.label => status = "OPTIMAL"
        /\ status = "SUBOPTIMAL"
              => output.shown /\ output.label # OptimalOutput.label

\* C24: the coverage mode never changes during a run and the model holds
\* the coverage family of that mode only; from a state in which the solver
\* has returned INFEASIBLE no step removes or changes a constraint, changes
\* the status or leads back to compiling or solving.
C24_NoRelaxationAfterInfeasible ==
    [][/\ allow_dropping' = allow_dropping
       /\ \A k \in BagToSet(constrs') :
             /\ k.fam = "coverage" => ~allow_dropping
             /\ k.fam = "scheduled_or_dropped" => allow_dropping
       /\ status = "INFEASIBLE"
             => /\ constrs' = constrs
                /\ status' = status
                /\ pc' \in {"done", "diagnose"}]_vars

C24_Witness ==
    /\ status = "INFEASIBLE"
    /\ output.made
    /\ \E k \in BagToSet(constrs) : k.fam = "coverage"

\* the course has no allowed room type
NoAllowedRoomType(c) == allowed_types(c) = {}

\* every variable of the course is fixed to 0 by a room-type constraint
FixedByRoomType(c) ==
    \A q \in CourseVars(c) :
        \E k \in BagToSet(constrs) : k.fam = "room_type" /\ q \in k.vars

\* C25: once the room-type family has been compiled for a set of courses
\* one of which has no allowed room type, the compilation has failed with
\* an error; the model does not hold that course with every variable fixed
\* to 0.
C25_EmptyRoomTypesRejected ==
    \A c \in courses_id_list :
        (applied["room_type"] > 0 /\ NoAllowedRoomType(c))
        => pc = "raised" /\ ~FixedByRoomType(c)

\* C26: called with the semester set the callers derive from the courses'
\* tags, build_courses_by_semester returns (the semester-scoped term does
\* not end in ValueError) and maps every semester of the set to the courses
\* the hard non-overlap constraint of that semester sums over.
C26_SameCourseGroup ==
    (soft.term \in {"max_per_day", "single_day"} /\ soft.sems = semesters)
    => /\ soft.outcome # "ValueError"
       /\ \A sem \in semesters :
             build_courses_by_semester(semesters)[sem] = courses_in_sem(sem)

\* classes of the semester's courses in the slots of the day under x
ClassesOn(sem, day) ==
    Cardinality({q \in x : /\ q[1] \in Range(day)
                           /\ q[3] \in build_courses_by_semester(soft.sems)[sem]})

\* C27: in every satisfying assignment of a model with the single-class-day
\* term, for each semester and day has_any = 1 iff the semester has a class
\* that day, has_two = 1 iff it has at least two, single = 1 iff it has
\* exactly one, and the term is weight times the number of (semester, day)
\* pairs with exactly one class.
C27_SingleClassDayExact ==
    (soft.term = "single_day" /\ soft.outcome = "linked")
    => /\ \A i \in DOMAIN soft.vals :
             /\ soft.vals[i] # {}
             /\ \A w \in soft.vals[i] :
                   LET n == ClassesOn(i[1], soft.days[i[2]])
                   IN  /\ (w[1] = 1) <=> (n >= 1)
                       /\ (w[2] = 1) <=> (n >= 2)
                       /\ (w[3] = 1) <=> (n = 1)
       /\ soft.least
            = soft.weight
              * Cardinality({i \in DOMAIN soft.vals :
                               ClassesOn(i[1], soft.days[i[2]]) = 1})

\* a linked term charged for a semester-day of exactly one class
C27_Witness ==
    /\ soft.term = "single_day"
    /\ soft.outcome = "linked"
    /\ soft.least > 0
    /\ \E i \in DOMAIN soft.vals :
          /\ ClassesOn(i[1], soft.days[i[2]]) = 1
          /\ soft.vals[i] = {<<1, 0, 1>>}

\* a linked term with a semester-day of two classes, which is not charged
C27_TwoClasses ==
    /\ soft.term = "single_day"
    /\ soft.outcome = "linked"
    /\ \E i \in DOMAIN soft.vals :
          /\ ClassesOn(i[1], soft.days[i[2]]) = 2
          /\ soft.vals[i] = {<<1, 1, 0>>}

\* the semester has a class in the slot under x
HasClass(sem, s) ==
    \E q \in x : q[1] = s /\ q[3] \in build_courses_by_semester(soft.sems)[sem]

\* C28: the semester-gap term charges a semester for two slots s1 < s2 of a
\* day only when the semester has a class in s1, a class in s2 and none in
\* between; a semester-day with a single class contributes 0.
C28_GapChargedOnlyForGaps ==
    (soft.term = "gap" /\ soft.outcome = "linked")
    => \A i \in DOMAIN soft.charges :
          LET day == soft.days[i[2]]
              j == i[3] + i[4] + 1
          IN  /\ soft.charges[i] > 0
                 => /\ HasClass(i[1], day[i[3]])
                    /\ HasClass(i[1], day[j])
                    /\ \A m \in (i[3] + 1) .. (j - 1) : ~HasClass(i[1], day[m])
              /\ ClassesOn(i[1], day) <= 1 => soft.charges[i] = 0

\* the teachers of the model that the course's entry of courses.json names
KnownTeacherIds(c) == Range(courses_json[c].teacher_ids) \cap teachers_id_list

\* C29: in the model built by lp_minimal_3, a course whose teacher_ids names
\* at least one known teacher is, in every satisfying assignment, assigned
\* to none of the other teachers; a course whose teacher_ids is empty or
\* names unknown ids only gets no teacher restriction.
C29_OnlyListedTeachers ==
    (allow_dropping /\ status \in {"OPTIMAL", "SUBOPTIMAL"})
    => \A c \in courses_id_list :
          /\ KnownTeacherIds(c) # {}
             => \A q \in x : q[3] = c => q[2] \in KnownTeacherIds(c)
          /\ KnownTeacherIds(c) = {}
             => \A k \in BagToSet(constrs) :
                   k.fam = "teacher_not_allowed" => k.ids[1] # c

\* both slots belong to one day of the partition main passes as days
SameDay(s1, s2) ==
    \E d \in DOMAIN MainDays : {s1, s2} \subseteq Range(MainDays[d])

\* the teacher teaches in a room of the building in the slot under x
TeachesIn(t, s, bd) ==
    \E q \in x : q[1] = s /\ q[2] = t /\ room_by_id[q[4]].address = bd

\* building changes of a teacher between two consecutive slots of one day
SameDayChanges ==
    {i \in teachers_id_list \X slots \X buildings \X buildings :
        /\ i[2] + 1 \in slots
        /\ SameDay(i[2], i[2] + 1)
        /\ i[3] # i[4]
        /\ TeachesIn(i[1], i[2], i[3])
        /\ TeachesIn(i[1], i[2] + 1, i[4])}

\* C30: the back-to-back building-change term charges a teacher only for
\* slot pairs (s, s + 1) of one day: a change between the last slot of a day
\* and the first slot of the next day costs nothing.
C30_ChargedWithinDayOnly ==
    (soft.term = "b2b" /\ soft.outcome = "linked")
    => /\ \A i \in DOMAIN soft.z : soft.z[i] = 1 => SameDay(i[2], i[2] + 1)
       /\ soft.value = soft.weight * Cardinality(SameDayChanges)
====
